---- MODULE Spec2Model ----
(***************************************************************************)
(* Join resolution of the lazy query planner:                              *)
(*   crates/polars-plan/src/plans/conversion/dsl_to_ir/join.rs             *)
(* resolve_join, resolve_join_where, ensure_lossless_binary_comparisons    *)
(* and build_upcast_node_list, as a state machine over the plan arena      *)
(* (lp_arena) and the expression arena (expr_arena).                       *)
(***************************************************************************)
EXTENDS Integers, Sequences, FiniteSets, TLC

\* ------------------------------------------------------------------ bounds
\* Longest key list on either side of an equality join.
MaxKeys == 2
\* Longest predicate list of an inequality join.
MaxPreds == 2
\* Most whole 64-bit chunks in a bitmap.
MaxChunks == 1

\* ------------------------------------------------------------------ dtypes
DTypes == {"Int32", "Int64", "UInt32", "Float64", "String", "Boolean", "Date", "Datetime"}

\* The value the supertype oracle returns when there is no supertype (Option::None).
NoSupertype == "NoSupertype"

\* The value of a dtype computation that failed.
DtypeError == "DtypeError"

is_primitive_numeric(dt) == dt \in {"Int32", "Int64", "UInt32", "Float64"}

is_integer(dt) == dt \in {"Int32", "Int64", "UInt32"}

\* Lossless numeric supertype oracle: None for equal dtypes and for pairs
\* that have no lossless widening.
get_numeric_upcast_supertype_lossless(l, r) ==
    IF l = r THEN NoSupertype
    ELSE IF is_integer(l) /\ is_integer(r) THEN "Int64"
    ELSE IF {l, r} \in {{"Int32", "Float64"}, {"UInt32", "Float64"}} THEN "Float64"
    ELSE NoSupertype

\* General common supertype oracle: NoSupertype stands for its error.
try_get_supertype(l, r) ==
    IF l = r THEN l
    ELSE IF is_integer(l) /\ is_integer(r) THEN "Int64"
    ELSE IF is_primitive_numeric(l) /\ is_primitive_numeric(r) THEN "Float64"
    ELSE IF {l, r} = {"Date", "Datetime"} THEN "Datetime"
    ELSE NoSupertype

\* ------------------------------------------------------------------ schemas
\* A schema is a sequence of fields in insertion order.
Field(name, dtype) == [name |-> name, dtype |-> dtype]

contains(schema, name) == \E i \in 1..Len(schema) : schema[i].name = name

index_of(schema, name) == CHOOSE i \in 1..Len(schema) : schema[i].name = name

get(schema, name) == schema[index_of(schema, name)].dtype

iter_names(schema) == [i \in 1..Len(schema) |-> schema[i].name]

\* Schema::with_column: insert, overwriting the dtype of an existing name in place.
with_column(schema, name, dtype) ==
    IF contains(schema, name)
    THEN [schema EXCEPT ![index_of(schema, name)] = Field(name, dtype)]
    ELSE Append(schema, Field(name, dtype))

\* POLARS_TMP_PREFIX followed by the counter: get_tmp_name(i), i counted from 0.
TmpNames == << "__POLARS_TMP_0", "__POLARS_TMP_1", "__POLARS_TMP_2", "__POLARS_TMP_3",
               "__POLARS_TMP_4", "__POLARS_TMP_5", "__POLARS_TMP_6", "__POLARS_TMP_7" >>

get_tmp_name(i) == TmpNames[i + 1]

\* n.starts_with(POLARS_TMP_PREFIX): a temporary name, with or without the
\* suffix of the schema merge.
starts_with_tmp_prefix(n) ==
    \/ \E i \in 1..Len(TmpNames) : TmpNames[i] = n
    \/ n = "__POLARS_TMP_0_right"

\* The suffix the schema merge gives a right column whose name is taken.
suffixed(name) ==
    CASE name = "id" -> "id_right"
      [] name = "a" -> "a_right"
      [] name = "__POLARS_TMP_0" -> "__POLARS_TMP_0_right"
      [] OTHER -> "other_right"

LeftSchema == << Field("a", "Int32"), Field("b", "Int64"), Field("id", "Int32"),
                 Field("v", "String"), Field("d", "Date") >>

RightSchema == << Field("x", "Int64"), Field("y", "Int64"), Field("id", "Int64"),
                  Field("w", "Float64"), Field("u", "UInt32"), Field("t", "Datetime") >>

\* A left input that already has a column named like a temporary column.
LeftSchemaTmp == Append(LeftSchema, Field("__POLARS_TMP_0", "String"))

\* ------------------------------------------------------------------ DSL expressions
\* An unresolved expression tree (dsl::Expr).  Trees are held in a table and
\* named by an identifier; left and right name the children ("" for none).
Expr(kind, name, dtype, left, right, op) ==
    [kind |-> kind, name |-> name, dtype |-> dtype, left |-> left, right |-> right, op |-> op]

DslExprs ==
    [ col_a    |-> Expr("Column", "a", "", "", "", ""),
      col_b    |-> Expr("Column", "b", "", "", "", ""),
      col_id   |-> Expr("Column", "id", "", "", "", ""),
      col_v    |-> Expr("Column", "v", "", "", "", ""),
      col_d    |-> Expr("Column", "d", "", "", "", ""),
      col_x    |-> Expr("Column", "x", "", "", "", ""),
      col_y    |-> Expr("Column", "y", "", "", "", ""),
      col_w    |-> Expr("Column", "w", "", "", "", ""),
      col_u    |-> Expr("Column", "u", "", "", "", ""),
      col_t    |-> Expr("Column", "t", "", "", "", ""),
      col_zz   |-> Expr("Column", "zz", "", "", "", ""),
      lit5     |-> Expr("Literal", "literal", "Int32", "", "", ""),
      lit7     |-> Expr("Literal", "literal", "Int64", "", "", ""),
      alias_a  |-> Expr("Alias", "z", "", "col_a", "", ""),
      alias_plus_1 |-> Expr("BinaryExpr", "", "", "alias_a", "lit5", "Plus"),
      a_plus_1 |-> Expr("BinaryExpr", "", "", "col_a", "lit5", "Plus"),
      x_plus_1 |-> Expr("BinaryExpr", "", "", "col_x", "lit7", "Plus"),
      cast_a   |-> Expr("Cast", "", "Int64", "col_a", "", ""),
      sum_a    |-> Expr("Agg", "", "", "col_a", "", "Sum"),
      win_a    |-> Expr("Window", "", "", "col_a", "", ""),
      a_plus_sum |-> Expr("BinaryExpr", "", "", "col_a", "sum_a", "Plus"),
      abs_u    |-> Expr("Function", "", "", "col_u", "", "Abs"),
      a_plus_x |-> Expr("BinaryExpr", "", "", "col_a", "col_x", "Plus"),
      a_lt_x   |-> Expr("BinaryExpr", "", "", "col_a", "col_x", "Lt"),
      x_gt_a   |-> Expr("BinaryExpr", "", "", "col_x", "col_a", "Gt"),
      x_lt_u   |-> Expr("BinaryExpr", "", "", "col_x", "col_u", "Lt"),
      a_lt_b   |-> Expr("BinaryExpr", "", "", "col_a", "col_b", "Lt"),
      a_lt_lit7 |-> Expr("BinaryExpr", "", "", "col_a", "lit7", "Lt"),
      a_lt_u   |-> Expr("BinaryExpr", "", "", "col_a", "col_u", "Lt"),
      b_eq_y   |-> Expr("BinaryExpr", "", "", "col_b", "col_y", "Eq"),
      v_lt_x   |-> Expr("BinaryExpr", "", "", "col_v", "col_x", "Lt"),
      d_lt_t   |-> Expr("BinaryExpr", "", "", "col_d", "col_t", "Lt"),
      b_lt_w   |-> Expr("BinaryExpr", "", "", "col_b", "col_w", "Lt"),
      v_lt_t   |-> Expr("BinaryExpr", "", "", "col_v", "col_t", "Lt"),
      ax_lt_y  |-> Expr("BinaryExpr", "", "", "a_plus_x", "col_y", "Lt"),
      a_lt_abs_u |-> Expr("BinaryExpr", "", "", "col_a", "abs_u", "Lt"),
      casta_lt_u |-> Expr("BinaryExpr", "", "", "cast_a", "col_u", "Lt"),
      cast_a_lt_x |-> Expr("Cast", "", "Int64", "a_lt_x", "", ""),
      and_p    |-> Expr("BinaryExpr", "", "", "a_lt_x", "a_lt_u", "And"),
      zz_lt_x  |-> Expr("BinaryExpr", "", "", "col_zz", "col_x", "Lt"),
      alias_p  |-> Expr("Alias", "p", "", "a_lt_x", "", "") ]

ExprKinds == {"Column", "Literal", "Alias", "BinaryExpr", "Cast", "Agg", "Window", "Function"}

\* Operator::is_comparison
is_comparison(op) == op \in {"Eq", "NotEq", "Lt", "LtEq", "Gt", "GtEq"}

\* The nodes of an expression tree, the root included.
RECURSIVE expr_nodes(_)
expr_children(d) ==
    (IF d.left = "" THEN {} ELSE expr_nodes(d.left))
        \cup (IF d.right = "" THEN {} ELSE expr_nodes(d.right))

expr_nodes(e) == {e} \cup expr_children(DslExprs[e])

\* has_expr(e, |e| matches!(e, <one of kinds>))
has_expr(e, kinds) == \E n \in expr_nodes(e) : DslExprs[n].kind \in kinds

\* check_join_keys that looks at the root of each key alone.
check_join_keys_root_only(keys) == \A i \in 1..Len(keys) : DslExprs[keys[i]].kind # "Alias"

\* check_join_keys: TRUE iff it returns Ok.
check_join_keys(keys) == \A i \in 1..Len(keys) : ~has_expr(keys[i], {"Alias"})

\* The output name of an expression: its alias, else its leftmost leaf.
RECURSIVE dsl_output_name(_)
output_name_of(d) ==
    IF d.kind \in {"Column", "Literal", "Alias"} THEN d.name ELSE dsl_output_name(d.left)

dsl_output_name(e) == output_name_of(DslExprs[e])

\* ------------------------------------------------------------------ expression arena
\* An AExpr node.  left is the input of a unary node (Cast.expr) and the
\* left operand of a BinaryExpr; 0 stands for no child.
AExpr(kind, name, dtype, left, right, op, options) ==
    [kind |-> kind, name |-> name, dtype |-> dtype, left |-> left, right |-> right,
     op |-> op, options |-> options]

\* Arena::add returns the index of the appended node.
arena_add(arena, node) == Append(arena, node)

\* ExprIR: an expression node with its output name.
ExprIR(node, output_name) == [node |-> node, output_name |-> output_name]

\* Lowering of one expression into the arena, children first.  It fails with
\* ColumnNotFound on a column the schema does not have; nodes appended
\* before the failure stay in the arena.  The result is [ok, arena, node].
RECURSIVE to_aexpr_impl(_, _, _)
\* A node with one input l, already lowered.
to_aexpr_unary(d, l) ==
    IF ~l.ok THEN l
    ELSE [ok |-> TRUE,
          arena |-> arena_add(l.arena, AExpr(d.kind, "", d.dtype, l.node, 0, d.op,
                                             IF d.kind = "Cast" THEN "Strict" ELSE "")),
          node |-> Len(l.arena) + 1]

\* A BinaryExpr whose operands l and r are lowered.
to_aexpr_binary(d, l, r) ==
    IF ~r.ok THEN r
    ELSE [ok |-> TRUE,
          arena |-> arena_add(r.arena, AExpr("BinaryExpr", "", "", l.node, r.node, d.op, "")),
          node |-> Len(r.arena) + 1]

\* A BinaryExpr whose left operand l is lowered.
to_aexpr_right(d, schema, l) ==
    IF ~l.ok THEN l ELSE to_aexpr_binary(d, l, to_aexpr_impl(d.right, schema, l.arena))

to_aexpr_node(d, schema, arena) ==
    CASE d.kind = "Column" ->
           IF contains(schema, d.name)
           THEN [ok |-> TRUE, arena |-> arena_add(arena, AExpr("Column", d.name, "", 0, 0, "", "")),
                 node |-> Len(arena) + 1]
           ELSE [ok |-> FALSE, arena |-> arena, node |-> 0]
      [] d.kind = "Literal" ->
           [ok |-> TRUE, arena |-> arena_add(arena, AExpr("Literal", "literal", d.dtype, 0, 0, "", "")),
            node |-> Len(arena) + 1]
      [] d.kind = "Alias" -> to_aexpr_impl(d.left, schema, arena)
      [] d.kind = "BinaryExpr" -> to_aexpr_right(d, schema, to_aexpr_impl(d.left, schema, arena))
      [] OTHER -> to_aexpr_unary(d, to_aexpr_impl(d.left, schema, arena))

to_aexpr_impl(e, schema, arena) == to_aexpr_node(DslExprs[e], schema, arena)

\* to_expr_ir_materialized_lit over a key list, in order.  Returns the
\* arena, the ExprIRs built and whether every expression resolved.
RECURSIVE to_expr_irs(_, _, _)
to_expr_irs_cons(key, h, t) ==
    [ok |-> t.ok, arena |-> t.arena, exprs |-> << ExprIR(h.node, dsl_output_name(key)) >> \o t.exprs]

to_expr_irs_rest(keys, schema, h) ==
    IF ~h.ok THEN [ok |-> FALSE, arena |-> h.arena, exprs |-> << >>]
    ELSE to_expr_irs_cons(Head(keys), h, to_expr_irs(Tail(keys), schema, h.arena))

to_expr_irs(keys, schema, arena) ==
    IF keys = << >> THEN [ok |-> TRUE, arena |-> arena, exprs |-> << >>]
    ELSE to_expr_irs_rest(keys, schema, to_aexpr_impl(Head(keys), schema, arena))

\* AExpr::to_dtype / get_type against a schema; DtypeError when a column
\* is missing or an arithmetic operand pair has no supertype.
RECURSIVE to_dtype(_, _, _)
supertype_or_error(st) == IF st = NoSupertype THEN DtypeError ELSE st

binary_dtype(op, l, r) ==
    IF l = DtypeError \/ r = DtypeError THEN DtypeError
    ELSE IF is_comparison(op) \/ op \in {"And", "Or"} THEN "Boolean"
    ELSE supertype_or_error(try_get_supertype(l, r))

cast_dtype(inner, dtype) == IF inner = DtypeError THEN DtypeError ELSE dtype

to_dtype_node(ae, arena, schema) ==
    CASE ae.kind = "Column" -> IF contains(schema, ae.name) THEN get(schema, ae.name) ELSE DtypeError
      [] ae.kind = "Literal" -> ae.dtype
      [] ae.kind = "Cast" -> cast_dtype(to_dtype(arena, ae.left, schema), ae.dtype)
      [] ae.kind = "BinaryExpr" ->
           binary_dtype(ae.op, to_dtype(arena, ae.left, schema), to_dtype(arena, ae.right, schema))
      [] OTHER -> to_dtype(arena, ae.left, schema)

to_dtype(arena, node, schema) == to_dtype_node(arena[node], arena, schema)

\* is_scalar_ae: the expression yields one value whatever the row.
RECURSIVE is_scalar(_, _)
is_scalar(arena, node) ==
    LET ae == arena[node] IN
    CASE ae.kind = "Literal" -> TRUE
      [] ae.kind = "Agg" -> TRUE
      [] ae.kind \in {"Cast", "Function"} -> is_scalar(arena, ae.left)
      [] ae.kind = "BinaryExpr" -> is_scalar(arena, ae.left) /\ is_scalar(arena, ae.right)
      [] OTHER -> FALSE

\* Every node under an expression is elementwise (no aggregate, no window).
RECURSIVE is_elementwise_rec(_, _)
is_elementwise_rec(arena, node) ==
    LET ae == arena[node] IN
    /\ ae.kind \notin {"Agg", "Window"}
    /\ (ae.left = 0 \/ is_elementwise_rec(arena, ae.left))
    /\ (ae.right = 0 \/ is_elementwise_rec(arena, ae.right))

all_elementwise(exprs, arena) ==
    \A i \in 1..Len(exprs) : is_elementwise_rec(arena, exprs[i].node)

\* ------------------------------------------------------------------ plan arena
NoneBy == [some |-> FALSE, cols |-> << >>]

SomeBy(cols) == [some |-> TRUE, cols |-> cols]

\* JoinOptionsIR: how, coalesce, validation and the by-columns of an AsOf join.
JoinOptionsIR(how, coalesce, validation, left_by, right_by) ==
    [how |-> how, coalesce |-> coalesce, validation |-> validation,
     left_by |-> left_by, right_by |-> right_by]

NoOptions == JoinOptionsIR("", "", "", NoneBy, NoneBy)

NoExprIR == ExprIR(0, "")

\* A plan node.  input is the single input of HStack, Filter and
\* SimpleProjection and the left input of a Join.
IR(kind, input, input_right, exprs, left_on, right_on, schema, ir_options, predicate) ==
    [kind |-> kind, input |-> input, input_right |-> input_right, exprs |-> exprs,
     left_on |-> left_on, right_on |-> right_on, schema |-> schema,
     options |-> ir_options, predicate |-> predicate]

Scan(schema) == IR("Scan", 0, 0, << >>, << >>, << >>, schema, NoOptions, NoExprIR)

HStack(input, exprs, schema) ==
    IR("HStack", input, 0, exprs, << >>, << >>, schema, NoOptions, NoExprIR)

Join(input_l, input_r, schema, l_on, r_on, join_options) ==
    IR("Join", input_l, input_r, << >>, l_on, r_on, schema, join_options, NoExprIR)

\* Filter without its predicate.
Filter_no_predicate(input, predicate) ==
    IR("Filter", input, 0, << >>, << >>, << >>, << >>, NoOptions, NoExprIR)

Filter(input, predicate) ==
    IR("Filter", input, 0, << >>, << >>, << >>, << >>, NoOptions, predicate)

SimpleProjection(input, columns) ==
    IR("SimpleProjection", input, 0, << >>, << >>, << >>, columns, NoOptions, NoExprIR)

\* IR::schema: a Filter has the schema of its input.
RECURSIVE ir_schema(_, _)
ir_schema(arena, node) ==
    IF arena[node].kind = "Filter" THEN ir_schema(arena, arena[node].input)
    ELSE arena[node].schema

\* The plan nodes that exist before any call: three scans the caller may
\* pass as already-lowered handles.
InitLpArena == << Scan(LeftSchema), Scan(RightSchema), Scan(LeftSchemaTmp) >>

\* Either<Arc<DslPlan>, Node>
EitherNode(node) == [form |-> "Node", node |-> node, plan |-> ""]

EitherPlan(plan) == [form |-> "Dsl", node |-> 0, plan |-> plan]

\* Lowering of a not-yet-lowered subtree: a scan lowers to one Scan node,
\* the plan "invalid" fails to lower.
to_alp_impl(plan, arena) ==
    CASE plan = "scan_left" ->
           [ok |-> TRUE, arena |-> arena_add(arena, Scan(LeftSchema)), node |-> Len(arena) + 1]
      [] plan = "scan_right" ->
           [ok |-> TRUE, arena |-> arena_add(arena, Scan(RightSchema)), node |-> Len(arena) + 1]
      [] OTHER -> [ok |-> FALSE, arena |-> arena, node |-> 0]

\* Lines 51-56: an already-lowered handle is used as it is.
lower_input(input, arena) ==
    IF input.form = "Node" THEN [ok |-> TRUE, arena |-> arena, node |-> input.node]
    ELSE to_alp_impl(input.plan, arena)

\* JoinArgs::should_coalesce
should_coalesce(join_options) == join_options.coalesce = "CoalesceColumns"

\* JoinValidation::is_valid_join: a validation that needs checks is
\* supported on inner, left and full joins only.
is_valid_join(validation, how) ==
    validation = "ManyToMany" \/ how \in {"Inner", "Left", "Full"}

\* validate_columns_in_input: every named column is in the schema.
validate_columns_in_input(cols, schema) ==
    \A i \in 1..Len(cols) : contains(schema, cols[i])

\* The right columns of the merged schema, appended in order; a right key of
\* a coalescing join is dropped, a name the left schema has takes the suffix.
RECURSIVE merge_right(_, _, _, _, _, _)
merge_right(new_schema, schema_left, schema_right, i, join_on_right, is_coalesced) ==
    IF i > Len(schema_right) THEN [ok |-> TRUE, schema |-> new_schema]
    ELSE LET f == schema_right[i]
             name == IF contains(schema_left, f.name) THEN suffixed(f.name) ELSE f.name IN
         IF f.name \in join_on_right /\ is_coalesced
         THEN merge_right(new_schema, schema_left, schema_right, i + 1, join_on_right, is_coalesced)
         ELSE IF contains(new_schema, name) THEN [ok |-> FALSE, schema |-> new_schema]
         ELSE merge_right(Append(new_schema, Field(name, f.dtype)), schema_left, schema_right,
                          i + 1, join_on_right, is_coalesced)

\* The output schema of a join: the left schema for semi and anti joins,
\* else the left schema followed by the right columns.
det_join_schema(schema_left, schema_right, l_on, r_on, join_options) ==
    IF join_options.how \in {"Semi", "Anti"} THEN [ok |-> TRUE, schema |-> schema_left]
    ELSE merge_right(schema_left, schema_left, schema_right, 1,
                     {r_on[i].output_name : i \in 1..Len(r_on)},
                     should_coalesce(join_options))

\* IRBuilder::project_simple(names).build(): a projection of the named
\* columns of the input, in the order given.
project_simple(input_schema, input, names) ==
    SimpleProjection(input, [i \in 1..Len(names) |-> Field(names[i], get(input_schema, names[i]))])

\* Lines 378-387: the names that do not start with POLARS_TMP_PREFIX, in order.
RECURSIVE filter_names(_)
filter_names(names) ==
    IF names = << >> THEN << >>
    ELSE IF starts_with_tmp_prefix(Head(names)) THEN filter_names(Tail(names))
    ELSE << Head(names) >> \o filter_names(Tail(names))

\* ------------------------------------------------------------------ scalar keys
\* Lines 183-192: the positions of the scalar keys of one side.
scalar_positions(on, arena) == {i \in 1..Len(on) : is_scalar(arena, on[i].node)}

\* Lines 207-217 and 227-237: the loop over the scalar keys of one side, from
\* position i on.  Each scalar key takes the next temporary name, its dtype
\* is written into the new schema under that name, a Column node of that
\* name is appended and takes the key's place in the key list, and the
\* key expression, renamed, joins the HStack's expressions.
RECURSIVE lift_scalars(_, _, _, _, _, _)
\* One scalar key, of the given dtype and temporary name.
lift_scalar(i, on, schema_new, arena, exprs, count, dtype, tmp_name) ==
    IF dtype = DtypeError
    THEN [ok |-> FALSE, on |-> on, schema |-> schema_new, arena |-> arena,
          exprs |-> exprs, count |-> count + 1]
    ELSE lift_scalars(i + 1,
                      [on EXCEPT ![i] = ExprIR(Len(arena) + 1, tmp_name)],
                      with_column(schema_new, tmp_name, dtype),
                      arena_add(arena, AExpr("Column", tmp_name, "", 0, 0, "", "")),
                      Append(exprs, ExprIR(on[i].node, tmp_name)),
                      count + 1)

lift_scalars(i, on, schema_new, arena, exprs, count) ==
    IF i > Len(on)
    THEN [ok |-> TRUE, on |-> on, schema |-> schema_new, arena |-> arena,
          exprs |-> exprs, count |-> count]
    ELSE IF ~is_scalar(arena, on[i].node)
    THEN lift_scalars(i + 1, on, schema_new, arena, exprs, count)
    ELSE lift_scalar(i, on, schema_new, arena, exprs, count,
                     to_dtype(arena, on[i].node, schema_new), get_tmp_name(count))

\* ------------------------------------------------------------------ key coercion
\* Lines 280-289: the overflow-permitting cast of a key to the supertype.
cast_node(expr, dtype) == AExpr("Cast", "", dtype, expr, 0, "", "Overflowing")

\* coerce_pair that puts the cast on the left key alone.
coerce_pair_left_only(k, i, casted_l, casted_r, key_cols_coalesced) ==
    [k EXCEPT !.left_on[i] = ExprIR(casted_l, k.left_on[i].output_name)]

\* Lines 291-311: what the loop does to one key pair that has a lossless
\* supertype.  k is the loop's state, casted_l and casted_r the new nodes.
coerce_pair(k, i, casted_l, casted_r, key_cols_coalesced) ==
    IF key_cols_coalesced
    THEN IF k.arena[k.left_on[i].node].kind = "Column" /\ k.arena[k.right_on[i].node].kind = "Column"
         THEN [k EXCEPT !.as_l = Append(@, ExprIR(casted_l, k.left_on[i].output_name)),
                        !.as_r = Append(@, ExprIR(casted_r, k.right_on[i].output_name))]
         ELSE [k EXCEPT !.err = "coalesce_non_column"]
    ELSE [k EXCEPT !.left_on[i] = ExprIR(casted_l, k.left_on[i].output_name),
                   !.right_on[i] = ExprIR(casted_r, k.right_on[i].output_name)]

\* add_casts that puts the casts in the slots of the keys, the keys being
\* copied to new slots, as the inequality path does.
add_casts_in_place(k, i, dtype) ==
    [k EXCEPT !.arena =
        [arena_add(arena_add(@, @[k.left_on[i].node]), @[k.right_on[i].node])
            EXCEPT ![k.left_on[i].node] = cast_node(Len(k.arena) + 1, dtype),
                   ![k.right_on[i].node] = cast_node(Len(k.arena) + 2, dtype)]]

\* Lines 280-289: both casts are appended to the arena, the left one first.
add_casts(k, i, dtype) ==
    [k EXCEPT !.arena = arena_add(arena_add(@, cast_node(k.left_on[i].node, dtype)),
                                  cast_node(k.right_on[i].node, dtype))]

\* Lines 270-319: the loop over the zipped key pairs, from pair i on.
\* k = [err, left_on, right_on, arena, as_l, as_r].
RECURSIVE coerce_keys(_, _, _, _, _)
\* The loop goes on after a pair unless the pair failed.
coerce_next(k, i, schema_left, schema_right, coalesced) ==
    IF k.err # "" THEN k ELSE coerce_keys(k, i + 1, schema_left, schema_right, coalesced)

\* Lines 274-318: one pair, with the supertype the oracle gave.
coerce_typed(k, i, schema_left, schema_right, coalesced, ltype, rtype, dtype) ==
    IF ltype = DtypeError \/ rtype = DtypeError THEN [k EXCEPT !.err = "dtype"]
    ELSE IF dtype # NoSupertype
    THEN coerce_next(coerce_pair(add_casts(k, i, dtype), i, Len(k.arena) + 1, Len(k.arena) + 2,
                                 coalesced),
                     i, schema_left, schema_right, coalesced)
    ELSE IF ltype = rtype THEN coerce_keys(k, i + 1, schema_left, schema_right, coalesced)
    ELSE [k EXCEPT !.err = "mismatch"]

\* Lines 271-274: the dtypes of one pair and their lossless supertype.
coerce_dtypes(k, i, schema_left, schema_right, coalesced, ltype, rtype) ==
    coerce_typed(k, i, schema_left, schema_right, coalesced, ltype, rtype,
                 get_numeric_upcast_supertype_lossless(ltype, rtype))

coerce_keys(k, i, schema_left, schema_right, coalesced) ==
    IF i > Len(k.left_on) \/ i > Len(k.right_on) THEN k
    ELSE coerce_dtypes(k, i, schema_left, schema_right, coalesced,
                       to_dtype(k.arena, k.left_on[i].node, schema_left),
                       to_dtype(k.arena, k.right_on[i].node, schema_right))

\* repeated_key_names on the names of one side alone.
repeated_key_names_one_side(l_on, r_on) ==
    \/ \E i, j \in 1..Len(l_on) : i < j /\ l_on[i].output_name = l_on[j].output_name
    \/ \E i, j \in 1..Len(r_on) : i < j /\ r_on[i].output_name = r_on[j].output_name

\* repeated_key_names on the names the keys have once literal keys are
\* temporary columns: every literal key has a name of its own.
repeated_key_names_after_scalars(l_on, r_on) ==
    LET n == IF Len(l_on) < Len(r_on) THEN Len(l_on) ELSE Len(r_on) IN
    \E i, j \in 1..n :
        /\ i < j
        /\ l_on[i].output_name = l_on[j].output_name
        /\ r_on[i].output_name = r_on[j].output_name
        /\ l_on[i].output_name # "literal"
        /\ r_on[i].output_name # "literal"

\* Lines 143-150: TRUE iff some (left name, right name) pair is inserted twice.
repeated_key_names(l_on, r_on) ==
    LET n == IF Len(l_on) < Len(r_on) THEN Len(l_on) ELSE Len(r_on) IN
    \E i, j \in 1..n :
        /\ i < j
        /\ l_on[i].output_name = l_on[j].output_name
        /\ r_on[i].output_name = r_on[j].output_name

\* ------------------------------------------------------------------ inequality joins
\* ExprOrigin and its | operator.
origin_or(p, q) ==
    CASE p = "None" -> q
      [] q = "None" -> p
      [] p = q -> p
      [] OTHER -> "Both"

\* target_dtype that asks the general supertype oracle, always.
target_dtype_general(dtype_left, dtype_right) == try_get_supertype(dtype_left, dtype_right)

\* Lines 584-596: the dtype both operands of a cross-table comparison are
\* cast to; NoSupertype when the oracle has none.
target_dtype(dtype_left, dtype_right) ==
    IF is_primitive_numeric(dtype_left) \/ is_primitive_numeric(dtype_right)
    THEN get_numeric_upcast_supertype_lossless(dtype_left, dtype_right)
    ELSE try_get_supertype(dtype_left, dtype_right)

\* Lines 598-608: the operands whose dtype is not dt are scheduled.
push_replacements(to_replace, left_node, right_node, dtype_left, dtype_right, dt) ==
    IF dt = NoSupertype
    THEN [err |-> (IF is_primitive_numeric(dtype_left) \/ is_primitive_numeric(dtype_right)
                   THEN "cannot_compare" ELSE "no_supertype"),
          to_replace |-> to_replace]
    ELSE IF dt # dtype_left /\ dt # dtype_right
    THEN [err |-> "", to_replace |-> to_replace \o << << left_node, dt >>, << right_node, dt >> >>]
    ELSE IF dt # dtype_left THEN [err |-> "", to_replace |-> Append(to_replace, << left_node, dt >>)]
    ELSE IF dt # dtype_right THEN [err |-> "", to_replace |-> Append(to_replace, << right_node, dt >>)]
    ELSE [err |-> "", to_replace |-> to_replace]

\* Lines 582-609: the casts one cross-table comparison schedules.
schedule_casts(to_replace, left_node, right_node, dtype_left, dtype_right) ==
    IF dtype_left = dtype_right THEN [err |-> "", to_replace |-> to_replace]
    ELSE push_replacements(to_replace, left_node, right_node, dtype_left, dtype_right,
                           target_dtype(dtype_left, dtype_right))

\* Lines 529-619.  Returns [err, origin, to_replace]; err is "" on Ok.
RECURSIVE build_upcast_node_list(_, _, _, _, _)
\* The origin of a comparison with what it scheduled.
with_origin(sc, origin) == [err |-> sc.err, origin |-> origin, to_replace |-> sc.to_replace]

\* Lines 576-609: a comparison of a left-table with a right-table operand.
upcast_comparison(ae, origin, to_replace, dtype_left, dtype_right) ==
    IF dtype_left = DtypeError \/ dtype_right = DtypeError
    THEN [err |-> "DtypeError", origin |-> "None", to_replace |-> to_replace]
    ELSE with_origin(schedule_casts(to_replace, ae.left, ae.right, dtype_left, dtype_right),
                     origin)

\* upcast_operands without the test of the operands' origins.
upcast_operands_any_origin(ae, schema_merged, arena, l, r) ==
    IF r.err # "" THEN r
    ELSE IF is_comparison(ae.op)
    THEN upcast_comparison(ae, origin_or(l.origin, r.origin), r.to_replace,
                           to_dtype(arena, ae.left, schema_merged),
                           to_dtype(arena, ae.right, schema_merged))
    ELSE [err |-> "", origin |-> origin_or(l.origin, r.origin), to_replace |-> r.to_replace]

\* Lines 570-614: a BinaryExpr whose operands gave l and r.
upcast_operands(ae, schema_merged, arena, l, r) ==
    IF r.err # "" THEN r
    ELSE IF is_comparison(ae.op)
            /\ << l.origin, r.origin >> \in {<< "Left", "Right" >>, << "Right", "Left" >>}
    THEN upcast_comparison(ae, origin_or(l.origin, r.origin), r.to_replace,
                           to_dtype(arena, ae.left, schema_merged),
                           to_dtype(arena, ae.right, schema_merged))
    ELSE [err |-> "", origin |-> origin_or(l.origin, r.origin), to_replace |-> r.to_replace]

\* Lines 556-569: the right operand is visited after the left one.
upcast_right(ae, schema_left, schema_merged, arena, l) ==
    IF l.err # "" THEN l
    ELSE upcast_operands(ae, schema_merged, arena, l,
                         build_upcast_node_list(ae.right, schema_left, schema_merged, arena,
                                                l.to_replace))

\* upcast_node that looks a column up in the merged schema first.
upcast_node_merged_first(ae, schema_left, schema_merged, arena, to_replace) ==
    CASE ae.kind = "Column" ->
           IF contains(schema_merged, ae.name)
           THEN [err |-> "", origin |-> "Right", to_replace |-> to_replace]
           ELSE IF contains(schema_left, ae.name)
           THEN [err |-> "", origin |-> "Left", to_replace |-> to_replace]
           ELSE [err |-> "ColumnNotFound", origin |-> "None", to_replace |-> to_replace]
      [] ae.kind = "Literal" -> [err |-> "", origin |-> "None", to_replace |-> to_replace]
      [] ae.kind = "Cast" ->
           build_upcast_node_list(ae.left, schema_left, schema_merged, arena, to_replace)
      [] ae.kind = "BinaryExpr" ->
           upcast_right(ae, schema_left, schema_merged, arena,
                        build_upcast_node_list(ae.left, schema_left, schema_merged, arena,
                                               to_replace))
      [] OTHER -> [err |-> "", origin |-> "None", to_replace |-> to_replace]

upcast_node(ae, schema_left, schema_merged, arena, to_replace) ==
    CASE ae.kind = "Column" ->
           IF contains(schema_left, ae.name)
           THEN [err |-> "", origin |-> "Left", to_replace |-> to_replace]
           ELSE IF contains(schema_merged, ae.name)
           THEN [err |-> "", origin |-> "Right", to_replace |-> to_replace]
           ELSE [err |-> "ColumnNotFound", origin |-> "None", to_replace |-> to_replace]
      [] ae.kind = "Literal" -> [err |-> "", origin |-> "None", to_replace |-> to_replace]
      [] ae.kind = "Cast" ->
           build_upcast_node_list(ae.left, schema_left, schema_merged, arena, to_replace)
      [] ae.kind = "BinaryExpr" ->
           upcast_right(ae, schema_left, schema_merged, arena,
                        build_upcast_node_list(ae.left, schema_left, schema_merged, arena,
                                               to_replace))
      [] OTHER -> [err |-> "", origin |-> "None", to_replace |-> to_replace]

build_upcast_node_list(node, schema_left, schema_merged, arena, to_replace) ==
    upcast_node(arena[node], schema_left, schema_merged, arena, to_replace)

\* replace_with_cast that leaves a node alone that is such a cast already.
replace_with_cast_once(arena, expr, dtype) ==
    IF arena[expr].kind = "Cast" /\ arena[expr].options = "Overflowing" /\ arena[expr].dtype = dtype
    THEN arena
    ELSE [arena_add(arena, arena[expr]) EXCEPT ![expr] = cast_node(Len(arena) + 1, dtype)]

\* Lines 513-519: the node is copied to a new slot and its own slot is
\* replaced, in place, by a Cast of the copy.
replace_with_cast(arena, expr, dtype) ==
    [arena_add(arena, arena[expr]) EXCEPT ![expr] = cast_node(Len(arena) + 1, dtype)]

\* Lines 512-520: the loop over the drained upcast_exprs.
RECURSIVE replace_with_casts(_, _)
replace_with_casts(arena, upcast_exprs) ==
    IF upcast_exprs = << >> THEN arena
    ELSE replace_with_casts(replace_with_cast(arena, Head(upcast_exprs)[1], Head(upcast_exprs)[2]),
                            Tail(upcast_exprs))

\* Lines 511-521, given what build_upcast_node_list returned.
apply_upcasts(arena, b) ==
    IF b.err # "" THEN [err |-> b.err, arena |-> arena]
    ELSE [err |-> "", arena |-> replace_with_casts(arena, b.to_replace)]

\* Lines 501-522.  Returns [err, arena].
ensure_lossless_binary_comparisons(node, schema_left, schema_merged, arena, upcast_exprs) ==
    apply_upcasts(arena, build_upcast_node_list(node, schema_left, schema_merged, arena,
                                                upcast_exprs))

\* ------------------------------------------------------------------ requests
\* The key lists and predicate lists of the requests: every list of at most
\* n expressions of a pool.
Lists(pool, n) == UNION {[1..m -> pool] : m \in 0..n}

JoinRequest(in_l, in_r, l_keys, r_keys, preds, join_options, eager) ==
    [input_left |-> in_l, input_right |-> in_r, left_on |-> l_keys, right_on |-> r_keys,
     predicates |-> preds, options |-> join_options, eager |-> eager]

PlainOptions(how, coalesce) == JoinOptionsIR(how, coalesce, "ManyToMany", NoneBy, NoneBy)

Coalesces == {"CoalesceColumns", "KeepColumns"}

\* Key shapes: column and computed keys on lowered and unlowered inputs.
ShapeRequests ==
    { JoinRequest(ins[1], ins[2], l, r, << >>, PlainOptions(how, c), FALSE) :
        ins \in { << EitherNode(1), EitherNode(2) >>,
                  << EitherPlan("scan_left"), EitherPlan("scan_right") >> },
        l \in Lists({"col_a", "a_plus_1"}, MaxKeys),
        r \in Lists({"col_x", "col_y"}, MaxKeys),
        how \in {"Inner", "Cross", "Full"},
        c \in Coalesces }

\* Key dtypes: column keys of equal, widening and incompatible dtypes.
DtypeRequests ==
    { JoinRequest(EitherNode(1), EitherNode(2), l, r, << >>, PlainOptions(how, c), FALSE) :
        l \in Lists({"col_b", "col_id", "col_v"}, MaxKeys),
        r \in Lists({"col_id", "col_w"}, MaxKeys),
        how \in {"Inner", "Left", "Full", "Semi"},
        c \in Coalesces }

\* Scalar keys, also on a left input that has a column named like a
\* temporary column.
ScalarRequests ==
    { JoinRequest(EitherNode(n), EitherNode(2), l, r, << >>, PlainOptions(how, c), FALSE) :
        n \in {1, 3},
        l \in Lists({"col_a", "lit5", "sum_a"}, MaxKeys),
        r \in Lists({"col_x", "lit7"}, MaxKeys),
        how \in {"Inner", "Full"},
        c \in {"CoalesceColumns"} }

\* Inputs that fail to lower, alias and window keys, a missing key column,
\* validation modes, AsOf by-columns and the IEJoin kind.
OtherRequests ==
    { JoinRequest(ins[1], ins[2], l, << "col_x" >>, << >>, PlainOptions(how, "KeepColumns"), FALSE) :
        ins \in { << EitherPlan("invalid"), EitherNode(2) >>,
                  << EitherPlan("scan_left"), EitherPlan("invalid") >> },
        l \in { << >>, << "col_a" >> },
        how \in {"Inner", "Cross"} }
    \cup
    { JoinRequest(EitherNode(1), EitherNode(2), l, r, << >>, PlainOptions(how, c), FALSE) :
        l \in { << "alias_a" >>, << "col_a", "alias_a" >>, << "win_a" >>, << "col_a", "win_a" >>,
                << "cast_a" >>, << "alias_plus_1" >>, << "a_plus_sum" >> },
        r \in { << "col_x" >>, << "col_x", "col_y" >> },
        how \in {"Inner", "Full"},
        c \in Coalesces }
    \cup
    { JoinRequest(EitherNode(1), EitherNode(2), l, r, << >>,
                  JoinOptionsIR(how, "KeepColumns", v, NoneBy, NoneBy), FALSE) :
        l \in { << "col_zz" >>, << "col_b" >>, << "col_b", "col_b" >> },
        r \in { << "col_x" >>, << "col_zz" >>, << "col_x", "col_x" >> },
        how \in {"Inner", "Semi", "IEJoin"},
        v \in {"ManyToMany", "OneToOne"} }
    \cup
    { JoinRequest(EitherNode(1), EitherNode(2), << "col_b" >>, r, << >>,
                  JoinOptionsIR("AsOf", c, "ManyToMany", lb, rb), FALSE) :
        r \in { << "col_x" >>, << >> },
        c \in Coalesces,
        lb \in { NoneBy, SomeBy(<< "id" >>), SomeBy(<< "id", "v" >>), SomeBy(<< "x" >>) },
        rb \in { NoneBy, SomeBy(<< "id" >>), SomeBy(<< "w" >>), SomeBy(<< "a" >>) } }

PredicatePool ==
    { "a_lt_x", "x_gt_a", "x_lt_u", "a_lt_b", "a_lt_lit7", "a_lt_u", "d_lt_t", "ax_lt_y",
      "a_lt_abs_u", "and_p" }

\* Inequality joins: predicate lists on unlowered inputs, and single
\* predicates with lowered inputs, with key lists, and in eager mode.
WhereRequests ==
    { JoinRequest(EitherPlan("scan_left"), EitherPlan("scan_right"), << >>, << >>, p,
                  PlainOptions("IEJoin", "KeepColumns"), FALSE) :
        p \in Lists(PredicatePool, MaxPreds) \ { << >> } }
    \cup
    { JoinRequest(EitherPlan("scan_left"), EitherPlan("scan_right"), << >>, << >>, p,
                  PlainOptions("IEJoin", "KeepColumns"), FALSE) :
        p \in { << "a_lt_x", "a_plus_x" >>, << "a_lt_u", "cast_a_lt_x" >>,
                << "cast_a_lt_x", "a_lt_x" >>, << "v_lt_x", "a_plus_x" >> } }
    \cup
    { JoinRequest(ins[1], ins[2], l, << >>, << p >>, PlainOptions(how, "CoalesceColumns"), eager) :
        ins \in { << EitherNode(1), EitherNode(2) >>,
                  << EitherPlan("scan_left"), EitherPlan("scan_right") >>,
                  << EitherPlan("scan_left"), EitherPlan("invalid") >> },
        l \in { << >>, << "col_a" >> },
        p \in { "a_lt_x", "v_lt_t", "zz_lt_x", "b_eq_y", "a_plus_x", "alias_p", "v_lt_x",
                "casta_lt_u", "b_lt_w" },
        how \in {"Inner", "IEJoin"},
        eager \in BOOLEAN }

Requests == ShapeRequests \cup DtypeRequests \cup ScalarRequests \cup OtherRequests
            \cup WhereRequests

\* ------------------------------------------------------------------ bitmaps
\* crates/polars-arrow/src/bitmap/bitmap_ops.rs.  The bits of a u64 chunk
\* are the set of the positions, 0..63, that are set.
ChunkBits == 64

\* The bits of the buffers the bitmaps are slices of: bit i of buffer p.
pattern_bit(p, i) ==
    CASE p = "ones" -> TRUE
      [] p = "zeros" -> FALSE
      [] p = "even" -> i % 2 = 0
      [] p = "third" -> i % 3 = 0
      [] OTHER -> i % ChunkBits \in {0, ChunkBits - 1}

\* Bitmap::sliced(offset, length) of a buffer.
sliced(buffer, offset, length) == [buffer |-> buffer, offset |-> offset, length |-> length]

\* Bitmap::get_bit: bit i of the slice.
get_bit(b, i) == pattern_bit(b.buffer, b.offset + i)

\* The k-th item of Bitmap::chunks::<u64>(), k counted from 0.
chunk(b, k) == {j \in 0..(ChunkBits - 1) : get_bit(b, k * ChunkBits + j)}

\* BitChunks::remainder: the bits after the last whole chunk, the bits
\* past the length unset.
remainder(b) ==
    {j \in 0..((b.length % ChunkBits) - 1) : get_bit(b, (b.length \div ChunkBits) * ChunkBits + j)}

\* The op of num_intersections_with that counts the set bits of either word.
count_ones_or(l, r) == Cardinality(l \cup r)

\* Lines 273-279: the op of num_intersections_with, (lhs & rhs).count_ones().
count_ones_and(l, r) == Cardinality(l \cap r)

\* Lines 380-396: pairs of slices of two buffers, most of equal length.
BitmapPairs ==
    LET buffers == {"ones", "zeros", "even", "third", "edges"}
        offsets == {0, 3, 9}
        lengths == {0, 1, ChunkBits - 1}
                      \cup {c * ChunkBits + r : c \in 1..MaxChunks, r \in {0, 1, 5}}
    IN { << sliced(bl, ol, n), sliced(br, or, n) >> :
            bl \in buffers, br \in buffers, ol \in offsets, or \in offsets, n \in lengths }
       \cup { << sliced(bl, 0, n), sliced(br, 0, n + 1) >> :
                 bl \in {"ones", "zeros", "even"}, br \in {"ones", "zeros", "even"},
                 n \in {0, 5, ChunkBits} }
       \cup { << sliced(bl, 0, n + 1), sliced(br, 0, n) >> :
                 bl \in {"ones", "zeros", "even"}, br \in {"ones", "zeros", "even"},
                 n \in {0, 5, ChunkBits} }

\* ------------------------------------------------------------------ state
VARIABLES
    lhs,                \* the bitmaps binary_fold is called with
    rhs,
    chunk_index,        \* the chunks the fold has consumed
    fold_result,        \* the accumulator of the fold
    kernel_out,         \* what the kernel returned
    fold_pc,            \* the position in the kernel
    kernel,             \* the kernel that is called
    chunk_vec           \* the Vec<u8> chunk_iter_to_vec_and_remainder fills, in u64 words

bitmap_vars == << lhs, rhs, chunk_index, fold_result, kernel_out, fold_pc, kernel, chunk_vec >>

VARIABLES
    root,               \* the node ensure_lossless_binary_comparisons is called with
    upcast_exprs,       \* the caller's Vec<(Node, DataType)>
    drained,            \* the pairs upcast_exprs.drain(..) has yielded
    expr_origin,        \* what build_upcast_node_list returned
    ensure_pc           \* the position in ensure_lossless_binary_comparisons

upcast_vars == << root, upcast_exprs, drained, expr_origin, ensure_pc >>

VARIABLES
    req,                \* the request resolve_join was called with
    args,               \* the arguments of the resolve_join call that is running
    options,            \* its `mut options`
    pc,                 \* the position in resolve_join / resolve_join_where
    lp_arena,           \* ctxt.lp_arena
    expr_arena,         \* ctxt.expr_arena
    input_left,         \* the lowered inputs
    input_right,
    left_on,            \* the resolved key lists
    right_on,
    has_scalars,
    as_with_columns_l,  \* the casts a coalesced full join materializes
    as_with_columns_r,
    join_schema,
    join_node,
    result,             \* what the outermost call returned
    opt_calls,          \* the calls of ctxt.conversion_optimizer.optimize_exprs
    opt_flags,          \* ctxt.opt_flags
    warned,             \* polars_warn! was called
    in_where,           \* resolve_join runs as the callee of resolve_join_where
    w                   \* the locals of resolve_join_where

vars == << req, args, options, pc, lp_arena, expr_arena, input_left, input_right, left_on,
           right_on, has_scalars, as_with_columns_l, as_with_columns_r, join_schema,
           join_node, result, opt_calls, opt_flags, warned, in_where, w >>

\* PolarsResult<(Node, Node)>, and a panic.
Pending == [status |-> "Pending", kind |-> "", msg |-> "", first |-> 0, second |-> 0]

Ok(first, second) == [status |-> "Ok", kind |-> "", msg |-> "", first |-> first, second |-> second]

\* ErrorKind with the two kinds of the error taxonomy.
ErrorKind_taxonomy(msg) ==
    CASE msg \in {"cross_keys", "expected_keys", "alias", "by_len", "by_unset", "len_mismatch",
                  "elementwise", "not_boolean"} -> "InvalidOperation"
      [] msg \in {"coalesce_non_column", "mismatch", "cannot_compare", "no_supertype", "repeated"}
           -> "SchemaMismatch"
      [] msg \in {"by_column", "column_not_found", "dtype", "ColumnNotFound", "DtypeError"}
           -> "ColumnNotFound"
      [] msg = "validation" -> "ComputeError"
      [] msg = "duplicate" -> "Duplicate"
      [] OTHER -> "Lowering"

\* The PolarsError variant each polars_ensure! / polars_bail! of the source names.
ErrorKind(msg) ==
    CASE msg \in {"cross_keys", "expected_keys", "alias", "by_len", "by_unset", "len_mismatch",
                  "repeated", "elementwise"} -> "InvalidOperation"
      [] msg \in {"coalesce_non_column", "mismatch", "cannot_compare", "no_supertype"}
           -> "SchemaMismatch"
      [] msg \in {"by_column", "column_not_found", "dtype", "ColumnNotFound", "DtypeError"}
           -> "ColumnNotFound"
      [] msg \in {"validation", "not_boolean"} -> "ComputeError"
      [] msg = "duplicate" -> "Duplicate"
      [] OTHER -> "Lowering"

Err(msg) == [status |-> "Err", kind |-> ErrorKind(msg), msg |-> msg, first |-> 0, second |-> 0]

Panic(msg) == [status |-> "Panic", kind |-> "", msg |-> msg, first |-> 0, second |-> 0]

NoWhere == [schema_left |-> << >>, schema_merged |-> << >>, last_node |-> 0, join_node |-> 0,
            i |-> 0, scratch |-> << >>]

Init ==
    /\ req \in Requests
    /\ args = req
    /\ options = req.options
    /\ pc = "rj_start"
    /\ lp_arena = InitLpArena
    /\ expr_arena = << >>
    /\ input_left = 0
    /\ input_right = 0
    /\ left_on = << >>
    /\ right_on = << >>
    /\ has_scalars = FALSE
    /\ as_with_columns_l = << >>
    /\ as_with_columns_r = << >>
    /\ join_schema = << >>
    /\ join_node = 0
    /\ result = Pending
    /\ opt_calls = << >>
    /\ opt_flags = IF req.eager THEN {"EAGER"} ELSE {}
    /\ warned = FALSE
    /\ in_where = FALSE
    /\ w = NoWhere
    /\ lhs = sliced("zeros", 0, 0)
    /\ rhs = sliced("zeros", 0, 0)
    /\ chunk_index = 0
    /\ fold_result = 0
    /\ kernel_out = 0
    /\ fold_pc = "idle"
    /\ kernel = "none"
    /\ chunk_vec = << >>
    /\ root = 0
    /\ upcast_exprs = << >>
    /\ drained = << >>
    /\ expr_origin = [err |-> "", origin |-> "None"]
    /\ ensure_pc = "idle"

\* ------------------------------------------------------------------ resolve_join
\* Lines 37-48: a request with predicates goes to resolve_join_where.  The
\* debug_assert! aborts a debug build when there are keys too; a release
\* build goes on.  unwrap_left aborts on an already-lowered input.
Dispatch ==
    /\ pc = "rj_start"
    /\ \/ /\ args.predicates = << >>
          /\ pc' = "rj_lower"
          /\ UNCHANGED result
       \/ /\ args.predicates # << >>
          /\ Len(args.left_on) + Len(args.right_on) > 0
          /\ pc' = "done"
          /\ result' = Panic("debug_assert")
       \/ /\ args.predicates # << >>
          /\ "Node" \in {args.input_left.form, args.input_right.form}
          /\ pc' = "done"
          /\ result' = Panic("unwrap_left")
       \/ /\ args.predicates # << >>
          /\ "Node" \notin {args.input_left.form, args.input_right.form}
          /\ pc' = "w_start"
          /\ UNCHANGED result
    /\ UNCHANGED << bitmap_vars, upcast_vars, req, args, options, lp_arena, expr_arena, input_left, input_right, left_on,
                    right_on, has_scalars, as_with_columns_l, as_with_columns_r, join_schema,
                    join_node, opt_calls, opt_flags, warned, in_where, w >>

\* Lines 50-59: both inputs are lowered, the left one first.
LowerInputs ==
    /\ pc = "rj_lower"
    /\ \E l \in {lower_input(args.input_left, lp_arena)} :
       \E r \in {IF l.ok THEN lower_input(args.input_right, l.arena) ELSE l} :
          /\ lp_arena' = r.arena
          /\ input_left' = IF r.ok THEN l.node ELSE input_left
          /\ input_right' = IF r.ok THEN r.node ELSE input_right
          /\ result' = IF ~l.ok THEN Err("join left") ELSE IF ~r.ok THEN Err("join right") ELSE result
          /\ pc' = IF r.ok THEN "rj_validate" ELSE "done"
    /\ UNCHANGED << bitmap_vars, upcast_vars, req, args, options, expr_arena, left_on, right_on, has_scalars,
                    as_with_columns_l, as_with_columns_r, join_schema, join_node, opt_calls,
                    opt_flags, warned, in_where, w >>

\* turn_off_coalesce that looks at the left keys alone.
turn_off_coalesce_left_only(l_keys, r_keys) ==
    \E k \in {l_keys[i] : i \in 1..Len(l_keys)} : has_expr(k, ExprKinds \ {"Column"})

\* Lines 68-72: some key is not a plain column.
turn_off_coalesce(l_keys, r_keys) ==
    \E k \in {l_keys[i] : i \in 1..Len(l_keys)} \cup {r_keys[i] : i \in 1..Len(r_keys)} :
        has_expr(k, ExprKinds \ {"Column"})

\* asof_by_error that accepts by-columns set on one side alone.
asof_by_error_one_side(join_options, schema_left, schema_right) ==
    LET l == join_options.left_by
        r == join_options.right_by IN
    IF join_options.how # "AsOf" \/ ~l.some \/ ~r.some THEN ""
    ELSE IF Len(l.cols) # Len(r.cols) THEN "by_len"
    ELSE IF ~validate_columns_in_input(l.cols, schema_left) THEN "by_column"
    ELSE IF ~validate_columns_in_input(r.cols, schema_right) THEN "by_column"
    ELSE ""

\* Lines 84-97: the by-columns of an AsOf join; "" when they are valid.
asof_by_error(join_options, schema_left, schema_right) ==
    LET l == join_options.left_by
        r == join_options.right_by IN
    IF join_options.how # "AsOf" \/ (~l.some /\ ~r.some) THEN ""
    ELSE IF l.some /\ r.some
    THEN IF Len(l.cols) # Len(r.cols) THEN "by_len"
         ELSE IF ~validate_columns_in_input(l.cols, schema_left) THEN "by_column"
         ELSE IF ~validate_columns_in_input(r.cols, schema_right) THEN "by_column"
         ELSE ""
    ELSE "by_unset"

\* validate_error without the comparison of the key counts (lines 99-107).
validate_error_no_len(l_keys, r_keys, join_options, schema_left, schema_right) ==
    IF join_options.how = "Cross"
    THEN IF Len(l_keys) + Len(r_keys) = 0 THEN "" ELSE "cross_keys"
    ELSE IF ~(Len(l_keys) + Len(r_keys) > 0) THEN "expected_keys"
    ELSE IF ~check_join_keys(l_keys) \/ ~check_join_keys(r_keys) THEN "alias"
    ELSE IF ~is_valid_join(join_options.validation, join_options.how) THEN "validation"
    ELSE asof_by_error(join_options, schema_left, schema_right)

\* validate_error without the check of a cross join's keys (line 62).
validate_error_cross_unchecked(l_keys, r_keys, join_options, schema_left, schema_right) ==
    IF join_options.how = "Cross" THEN ""
    ELSE IF ~(Len(l_keys) + Len(r_keys) > 0) THEN "expected_keys"
    ELSE IF ~check_join_keys(l_keys) \/ ~check_join_keys(r_keys) THEN "alias"
    ELSE IF ~is_valid_join(join_options.validation, join_options.how) THEN "validation"
    ELSE IF asof_by_error(join_options, schema_left, schema_right) # ""
    THEN asof_by_error(join_options, schema_left, schema_right)
    ELSE IF Len(l_keys) # Len(r_keys) THEN "len_mismatch"
    ELSE ""

\* Lines 61-108: the first check that fails; "" when all pass.
validate_error(l_keys, r_keys, join_options, schema_left, schema_right) ==
    IF join_options.how = "Cross"
    THEN IF Len(l_keys) + Len(r_keys) = 0 THEN "" ELSE "cross_keys"
    ELSE IF ~(Len(l_keys) + Len(r_keys) > 0) THEN "expected_keys"
    ELSE IF ~check_join_keys(l_keys) \/ ~check_join_keys(r_keys) THEN "alias"
    ELSE IF ~is_valid_join(join_options.validation, join_options.how) THEN "validation"
    ELSE IF asof_by_error(join_options, schema_left, schema_right) # ""
    THEN asof_by_error(join_options, schema_left, schema_right)
    ELSE IF Len(l_keys) # Len(r_keys) THEN "len_mismatch"
    ELSE ""

\* downgrade_coalesce without the downgrade.
downgrade_coalesce_never(join_options, l_keys, r_keys) == join_options

\* Lines 73-80: the options after the coalesce downgrade.
downgrade_coalesce(join_options, l_keys, r_keys) ==
    IF turn_off_coalesce(l_keys, r_keys)
    THEN [join_options EXCEPT !.coalesce = "KeepColumns"]
    ELSE join_options

\* Lines 61-108.
Validate ==
    /\ pc = "rj_validate"
    /\ \E e \in {validate_error(args.left_on, args.right_on, options,
                                ir_schema(lp_arena, input_left), ir_schema(lp_arena, input_right))} :
       \E reached_coalesce \in {options.how # "Cross" /\ e \notin {"expected_keys", "alias"}} :
          /\ options' = IF reached_coalesce
                        THEN downgrade_coalesce(options, args.left_on, args.right_on)
                        ELSE options
          /\ warned' = (warned \/ (/\ reached_coalesce
                                   /\ turn_off_coalesce(args.left_on, args.right_on)
                                   /\ options.coalesce = "CoalesceColumns"))
          /\ result' = IF e = "" THEN result ELSE Err(e)
          /\ pc' = IF e = "" THEN "rj_resolve" ELSE "done"
    /\ UNCHANGED << bitmap_vars, upcast_vars, req, args, lp_arena, expr_arena, input_left, input_right, left_on, right_on,
                    has_scalars, as_with_columns_l, as_with_columns_r, join_schema, join_node,
                    opt_calls, opt_flags, in_where, w >>

\* Lines 110-135: the left keys are resolved against the left schema, then
\* the right keys against the right schema.
ResolveKeys ==
    /\ pc = "rj_resolve"
    /\ \E l \in {to_expr_irs(args.left_on, ir_schema(lp_arena, input_left), expr_arena)} :
       \E r \in {IF l.ok
                 THEN to_expr_irs(args.right_on, ir_schema(lp_arena, input_right), l.arena)
                 ELSE l} :
          /\ expr_arena' = r.arena
          /\ left_on' = IF l.ok THEN l.exprs ELSE left_on
          /\ right_on' = IF r.ok THEN r.exprs ELSE right_on
          /\ result' = IF r.ok THEN result ELSE Err("column_not_found")
          /\ pc' = IF r.ok THEN "rj_dupcheck" ELSE "done"
    /\ UNCHANGED << bitmap_vars, upcast_vars, req, args, options, lp_arena, input_left, input_right, has_scalars,
                    as_with_columns_l, as_with_columns_r, join_schema, join_node, opt_calls,
                    opt_flags, warned, in_where, w >>

\* Lines 136-152: the repeated-key check, skipped for the IEJoin kind.
DupCheck ==
    /\ pc = "rj_dupcheck"
    /\ \E failed \in {options.how # "IEJoin" /\ repeated_key_names(left_on, right_on)} :
          /\ result' = IF failed THEN Err("repeated") ELSE result
          /\ pc' = IF failed THEN "done" ELSE "rj_optimize"
    /\ UNCHANGED << bitmap_vars, upcast_vars, req, args, options, lp_arena, expr_arena, input_left, input_right, left_on,
                    right_on, has_scalars, as_with_columns_l, as_with_columns_r, join_schema,
                    join_node, opt_calls, opt_flags, warned, in_where, w >>

\* OptCall that passes is_join_key = true, always.
OptCall_join_key(exprs, input, is_join_key) ==
    [exprs |-> exprs, input |-> input, is_join_key |-> TRUE]

\* One call of conversion_optimizer.optimize_exprs over the scratch.
OptCall(exprs, input, is_join_key) ==
    [exprs |-> exprs, input |-> input, is_join_key |-> is_join_key]

\* Lines 154-167: the optimizer runs over the left keys, then the right keys.
Optimize ==
    /\ pc = "rj_optimize"
    /\ opt_calls' = opt_calls \o << OptCall([i \in 1..Len(left_on) |-> left_on[i].node],
                                            input_left, TRUE),
                                    OptCall([i \in 1..Len(right_on) |-> right_on[i].node],
                                            input_right, TRUE) >>
    /\ pc' = "rj_scalars"
    /\ UNCHANGED << bitmap_vars, upcast_vars, req, args, options, lp_arena, expr_arena, input_left, input_right, left_on,
                    right_on, has_scalars, as_with_columns_l, as_with_columns_r, join_schema,
                    join_node, result, opt_flags, warned, in_where, w >>

\* Lines 218-223 and 238-243: the HStack of one side, when it has scalar keys.
add_scalar_hstack(arena, input, lifted) ==
    IF lifted.ok /\ lifted.exprs # << >>
    THEN arena_add(arena, HStack(input, lifted.exprs, lifted.schema))
    ELSE arena

\* Lines 175-252: every scalar key becomes a temporary column of its input.
Scalars ==
    /\ pc = "rj_scalars"
    /\ \E hs \in {scalar_positions(left_on, expr_arena) \cup scalar_positions(right_on, expr_arena)
                  # {}} :
       \E l \in {lift_scalars(1, left_on, ir_schema(lp_arena, input_left), expr_arena, << >>, 0)} :
       \E lp1 \in {add_scalar_hstack(lp_arena, input_left, l)} :
       \E r \in {lift_scalars(1, right_on, ir_schema(lp_arena, input_right), l.arena, << >>,
                              l.count)} :
          /\ has_scalars' = hs
          /\ IF ~hs
             THEN /\ pc' = "rj_coerce"
                  /\ UNCHANGED << lp_arena, expr_arena, input_left, input_right, left_on, right_on,
                                  result >>
             ELSE IF ~l.ok
             THEN /\ pc' = "done"
                  /\ result' = Err("dtype")
                  /\ expr_arena' = l.arena
                  /\ UNCHANGED << lp_arena, input_left, input_right, left_on, right_on >>
             ELSE /\ pc' = IF r.ok THEN "rj_coerce" ELSE "done"
                  /\ result' = IF r.ok THEN result ELSE Err("dtype")
                  /\ expr_arena' = r.arena
                  /\ lp_arena' = add_scalar_hstack(lp1, input_right, r)
                  /\ left_on' = l.on
                  /\ right_on' = IF r.ok THEN r.on ELSE right_on
                  /\ input_left' = IF l.exprs # << >> THEN Len(lp_arena) + 1 ELSE input_left
                  /\ input_right' = IF r.ok /\ r.exprs # << >> THEN Len(lp1) + 1 ELSE input_right
    /\ UNCHANGED << bitmap_vars, upcast_vars, req, args, options, as_with_columns_l, as_with_columns_r, join_schema,
                    join_node, opt_calls, opt_flags, warned, in_where, w >>

\* key_cols_coalesced for every join kind, not the full join alone.
key_cols_coalesced_any_kind(join_options) == should_coalesce(join_options)

\* Lines 266-267.
key_cols_coalesced(join_options) == should_coalesce(join_options) /\ join_options.how = "Full"

\* The state of the coercion loop before its first pair.
coerce_start(l_on, r_on, arena) ==
    [err |-> "", left_on |-> l_on, right_on |-> r_on, arena |-> arena,
     as_l |-> << >>, as_r |-> << >>]

\* Lines 263-319: the dtypes of each key pair are unified.
Coerce ==
    /\ pc = "rj_coerce"
    /\ \E k \in {coerce_keys(coerce_start(left_on, right_on, expr_arena), 1,
                             ir_schema(lp_arena, input_left), ir_schema(lp_arena, input_right),
                             key_cols_coalesced(options))} :
          /\ expr_arena' = k.arena
          /\ left_on' = k.left_on
          /\ right_on' = k.right_on
          /\ as_with_columns_l' = k.as_l
          /\ as_with_columns_r' = k.as_r
          /\ result' = IF k.err = "" THEN result ELSE Err(k.err)
          /\ pc' = IF k.err = "" THEN "rj_elementwise" ELSE "done"
    /\ UNCHANGED << bitmap_vars, upcast_vars, req, args, options, lp_arena, input_left, input_right, has_scalars,
                    join_schema, join_node, opt_calls, opt_flags, warned, in_where, w >>

\* Elementwise without the check.
Elementwise_unchecked ==
    /\ pc = "rj_elementwise"
    /\ pc' = "rj_schema"
    /\ UNCHANGED << bitmap_vars, upcast_vars, req, args, options, lp_arena, expr_arena, input_left, input_right, left_on,
                    right_on, has_scalars, as_with_columns_l, as_with_columns_r, join_schema,
                    join_node, result, opt_calls, opt_flags, warned, in_where, w >>

\* Lines 321-327: every key expression must be elementwise.
Elementwise ==
    /\ pc = "rj_elementwise"
    /\ \E ok \in {all_elementwise(left_on, expr_arena) /\ all_elementwise(right_on, expr_arena)} :
          /\ result' = IF ok THEN result ELSE Err("elementwise")
          /\ pc' = IF ok THEN "rj_schema" ELSE "done"
    /\ UNCHANGED << bitmap_vars, upcast_vars, req, args, options, lp_arena, expr_arena, input_left, input_right, left_on,
                    right_on, has_scalars, as_with_columns_l, as_with_columns_r, join_schema,
                    join_node, opt_calls, opt_flags, warned, in_where, w >>

\* Lines 329-341: the output schema of the join.
JoinSchema ==
    /\ pc = "rj_schema"
    /\ \E js \in {det_join_schema(ir_schema(lp_arena, input_left),
                                  ir_schema(lp_arena, input_right), left_on, right_on, options)} :
          /\ join_schema' = IF js.ok THEN js.schema ELSE join_schema
          /\ result' = IF js.ok THEN result ELSE Err("duplicate")
          /\ pc' = IF js.ok THEN "rj_materialize" ELSE "done"
    /\ UNCHANGED << bitmap_vars, upcast_vars, req, args, options, lp_arena, expr_arena, input_left, input_right, left_on,
                    right_on, has_scalars, as_with_columns_l, as_with_columns_r, join_node,
                    opt_calls, opt_flags, warned, in_where, w >>

\* add_cast_hstack that appends nothing.
add_cast_hstack_never(arena, input, as_with_columns, coalesced) == arena

\* Lines 344-353 and 355-364: the HStack of one side; it is given the
\* schema of its input.
add_cast_hstack(arena, input, as_with_columns, coalesced) ==
    IF coalesced /\ as_with_columns # << >>
    THEN arena_add(arena, HStack(input, as_with_columns, ir_schema(arena, input)))
    ELSE arena

\* Lines 343-365: a coalesced full join materializes the casts of its keys
\* in an HStack over each input.
Materialize ==
    /\ pc = "rj_materialize"
    /\ \E lp1 \in {add_cast_hstack(lp_arena, input_left, as_with_columns_l,
                                   key_cols_coalesced(options))} :
       \E lp2 \in {add_cast_hstack(lp1, input_right, as_with_columns_r,
                                   key_cols_coalesced(options))} :
          /\ lp_arena' = lp2
          /\ input_left' = IF Len(lp1) > Len(lp_arena) THEN Len(lp1) ELSE input_left
          /\ input_right' = IF Len(lp2) > Len(lp1) THEN Len(lp2) ELSE input_right
    /\ pc' = "rj_emit"
    /\ UNCHANGED << bitmap_vars, upcast_vars, req, args, options, expr_arena, left_on, right_on, has_scalars,
                    as_with_columns_l, as_with_columns_r, join_schema, join_node, result,
                    opt_calls, opt_flags, warned, in_where, w >>

\* Lines 367-375: the Join node is appended.
Emit ==
    /\ pc = "rj_emit"
    /\ lp_arena' = arena_add(lp_arena, Join(input_left, input_right, join_schema, left_on,
                                            right_on, options))
    /\ join_node' = Len(lp_arena) + 1
    /\ pc' = "rj_return"
    /\ UNCHANGED << bitmap_vars, upcast_vars, req, args, options, expr_arena, input_left, input_right, left_on, right_on,
                    has_scalars, as_with_columns_l, as_with_columns_r, join_schema, result,
                    opt_calls, opt_flags, warned, in_where, w >>

\* first_handle with the scalar case dropped: the join handle, always.
first_handle_join(scalars, select_node, join_handle) == join_handle

\* Lines 393-395: the first handle returned.
first_handle(scalars, select_node, join_handle) ==
    IF scalars THEN select_node ELSE join_handle

\* Lines 377-396: with scalar keys, a projection without the temporary
\* columns is appended; the call returns (last node, join node).
Return ==
    /\ pc = "rj_return"
    /\ \E first \in {first_handle(has_scalars, Len(lp_arena) + 1, join_node)} :
          /\ lp_arena' = IF has_scalars
                         THEN arena_add(lp_arena,
                                        project_simple(join_schema, join_node,
                                                       filter_names(iter_names(join_schema))))
                         ELSE lp_arena
          /\ IF in_where
             THEN /\ w' = [w EXCEPT !.last_node = first, !.join_node = join_node]
                  /\ pc' = "w_after"
                  /\ UNCHANGED result
             ELSE /\ result' = Ok(first, join_node)
                  /\ pc' = "done"
                  /\ UNCHANGED w
    /\ UNCHANGED << bitmap_vars, upcast_vars, req, args, options, expr_arena, input_left, input_right, left_on, right_on,
                    has_scalars, as_with_columns_l, as_with_columns_r, join_schema, join_node,
                    opt_calls, opt_flags, warned, in_where >>

\* ------------------------------------------------------------------ resolve_join_where
\* Lines 420-425: the optimizer flags are set and aliases are rejected.
WhereStart ==
    /\ pc = "w_start"
    /\ opt_flags' = (opt_flags \cup (IF "EAGER" \in opt_flags THEN {"PREDICATE_PUSHDOWN"} ELSE {}))
                    \cup {"COLLAPSE_JOINS"}
    /\ result' = IF check_join_keys(args.predicates) THEN result ELSE Err("alias")
    /\ pc' = IF check_join_keys(args.predicates) THEN "w_lower" ELSE "done"
    /\ UNCHANGED << bitmap_vars, upcast_vars, req, args, options, lp_arena, expr_arena, input_left, input_right, left_on,
                    right_on, has_scalars, as_with_columns_l, as_with_columns_r, join_schema,
                    join_node, opt_calls, warned, in_where, w >>

\* Lines 426-447: both inputs are lowered, the join kind becomes Cross and
\* resolve_join is called with the lowered inputs and no keys.
WhereLower ==
    /\ pc = "w_lower"
    /\ \E l \in {to_alp_impl(args.input_left.plan, lp_arena)} :
       \E r \in {IF l.ok THEN to_alp_impl(args.input_right.plan, l.arena) ELSE l} :
       \E cross \in {[options EXCEPT !.how = "Cross"]} :
          /\ lp_arena' = r.arena
          /\ result' = IF r.ok THEN result ELSE Err("join left")
          /\ pc' = IF r.ok THEN "rj_start" ELSE "done"
          /\ w' = IF r.ok THEN [w EXCEPT !.schema_left = ir_schema(l.arena, l.node)] ELSE w
          /\ options' = IF r.ok THEN cross ELSE options
          /\ args' = IF r.ok
                     THEN JoinRequest(EitherNode(l.node), EitherNode(r.node), << >>, << >>, << >>,
                                      cross, args.eager)
                     ELSE args
          /\ in_where' = r.ok
    /\ UNCHANGED << bitmap_vars, upcast_vars, req, expr_arena, input_left, input_right, left_on, right_on, has_scalars,
                    as_with_columns_l, as_with_columns_r, join_schema, join_node, opt_calls,
                    opt_flags, warned >>

\* Lines 449-456: the schema of the cross join.
WhereAfterJoin ==
    /\ pc = "w_after"
    /\ w' = [w EXCEPT !.schema_merged = ir_schema(lp_arena, w.last_node), !.i = 1]
    /\ pc' = "w_pred"
    /\ UNCHANGED << bitmap_vars, upcast_vars, req, args, options, lp_arena, expr_arena, input_left, input_right, left_on,
                    right_on, has_scalars, as_with_columns_l, as_with_columns_r, join_schema,
                    join_node, result, opt_calls, opt_flags, warned, in_where >>

\* check_predicate without the test of the dtype.
check_predicate_any_dtype(p, dt_out, schema_left, schema_merged) ==
    IF ~p.ok THEN [err |-> "column_not_found", arena |-> p.arena]
    ELSE IF dt_out = DtypeError THEN [err |-> "dtype", arena |-> p.arena]
    ELSE ensure_lossless_binary_comparisons(p.node, schema_left, schema_merged, p.arena, << >>)

\* Lines 463-479: the checks of one resolved predicate p whose dtype is
\* dt_out; "" when it passes, with the arena after the casts.
check_predicate(p, dt_out, schema_left, schema_merged) ==
    IF ~p.ok THEN [err |-> "column_not_found", arena |-> p.arena]
    ELSE IF dt_out = DtypeError THEN [err |-> "dtype", arena |-> p.arena]
    ELSE IF dt_out # "Boolean" THEN [err |-> "not_boolean", arena |-> p.arena]
    ELSE ensure_lossless_binary_comparisons(p.node, schema_left, schema_merged, p.arena, << >>)

\* Lines 457-490: one turn of the loop over the predicates.
WherePredicate ==
    /\ pc = "w_pred"
    /\ w.i <= Len(req.predicates)
    /\ \E p \in {to_aexpr_impl(req.predicates[w.i], w.schema_merged, expr_arena)} :
       \E dt_out \in {IF p.ok THEN to_dtype(p.arena, p.node, w.schema_merged) ELSE DtypeError} :
       \E el \in {check_predicate(p, dt_out, w.schema_left, w.schema_merged)} :
          /\ expr_arena' = el.arena
          /\ result' = IF el.err = "" THEN result ELSE Err(el.err)
          /\ pc' = IF el.err = "" THEN "w_pred" ELSE "done"
          /\ lp_arena' = IF el.err = ""
                         THEN arena_add(lp_arena,
                                        Filter(w.last_node,
                                               ExprIR(p.node, dsl_output_name(req.predicates[w.i]))))
                         ELSE lp_arena
          /\ w' = IF el.err = ""
                  THEN [w EXCEPT !.last_node = Len(lp_arena) + 1, !.i = @ + 1,
                                 !.scratch = Append(@, p.node)]
                  ELSE w
    /\ UNCHANGED << bitmap_vars, upcast_vars, req, args, options, input_left, input_right, left_on, right_on, has_scalars,
                    as_with_columns_l, as_with_columns_r, join_schema, join_node, opt_calls,
                    opt_flags, warned, in_where >>

\* Lines 492-496: the optimizer runs once over the predicates and the
\* call returns (last filter, cross join).
WhereOptimize ==
    /\ pc = "w_pred"
    /\ w.i > Len(req.predicates)
    /\ opt_calls' = Append(opt_calls, OptCall(w.scratch, w.last_node, FALSE))
    /\ result' = Ok(w.last_node, w.join_node)
    /\ pc' = "done"
    /\ UNCHANGED << bitmap_vars, upcast_vars, req, args, options, lp_arena, expr_arena, input_left, input_right, left_on,
                    right_on, has_scalars, as_with_columns_l, as_with_columns_r, join_schema,
                    join_node, opt_flags, warned, in_where, w >>

Next ==
    \/ Dispatch
    \/ LowerInputs
    \/ Validate
    \/ ResolveKeys
    \/ DupCheck
    \/ Optimize
    \/ Scalars
    \/ Coerce
    \/ Elementwise
    \/ JoinSchema
    \/ Materialize
    \/ Emit
    \/ Return
    \/ WhereStart
    \/ WhereLower
    \/ WhereAfterJoin
    \/ WherePredicate
    \/ WhereOptimize

Spec == Init /\ [][Next]_vars

\* ------------------------------------------------------------------ num_intersections_with
\* A call of num_intersections_with(lhs, rhs); no join is being resolved.
BitmapInit ==
    /\ \E pair \in BitmapPairs : lhs = pair[1] /\ rhs = pair[2]
    /\ chunk_index = 0
    /\ fold_result = 0
    /\ kernel_out = 0
    /\ fold_pc = "binary_fold"
    /\ kernel = "num_intersections_with"
    /\ chunk_vec = << >>
    /\ req = JoinRequest(EitherNode(1), EitherNode(2), << >>, << >>, << >>,
                         PlainOptions("Cross", "KeepColumns"), FALSE)
    /\ args = req
    /\ options = req.options
    /\ pc = "idle"
    /\ lp_arena = InitLpArena
    /\ expr_arena = << >>
    /\ input_left = 0
    /\ input_right = 0
    /\ left_on = << >>
    /\ right_on = << >>
    /\ has_scalars = FALSE
    /\ as_with_columns_l = << >>
    /\ as_with_columns_r = << >>
    /\ join_schema = << >>
    /\ join_node = 0
    /\ result = Pending
    /\ opt_calls = << >>
    /\ opt_flags = {}
    /\ warned = FALSE
    /\ in_where = FALSE
    /\ w = NoWhere
    /\ root = 0
    /\ upcast_exprs = << >>
    /\ drained = << >>
    /\ expr_origin = [err |-> "", origin |-> "None"]
    /\ ensure_pc = "idle"

\* Line 120: assert_eq!(lhs.len(), rhs.len()); the fold starts from init.
BinaryFold ==
    /\ fold_pc = "binary_fold"
    /\ fold_pc' = IF lhs.length = rhs.length THEN "chunks" ELSE "panic"
    /\ fold_result' = 0
    /\ UNCHANGED << vars, upcast_vars, lhs, rhs, chunk_index, kernel_out, kernel, chunk_vec >>

\* Lines 126-128: one step of the fold over the zipped whole chunks.
FoldChunk ==
    /\ fold_pc = "chunks"
    /\ chunk_index < lhs.length \div ChunkBits
    /\ fold_result' = fold_result + count_ones_and(chunk(lhs, chunk_index), chunk(rhs, chunk_index))
    /\ chunk_index' = chunk_index + 1
    /\ UNCHANGED << vars, upcast_vars, lhs, rhs, kernel_out, fold_pc, kernel, chunk_vec >>

\* Line 130: the remainders are folded in and the result is returned.
FoldRemainder ==
    /\ fold_pc = "chunks"
    /\ chunk_index = lhs.length \div ChunkBits
    /\ kernel_out' = fold_result + count_ones_and(remainder(lhs), remainder(rhs))
    /\ fold_pc' = "done"
    /\ UNCHANGED << vars, upcast_vars, lhs, rhs, chunk_index, fold_result, kernel, chunk_vec >>

BitmapNext ==
    \/ BinaryFold
    \/ FoldChunk
    \/ FoldRemainder

BitmapSpec == BitmapInit /\ [][BitmapNext]_<< vars, bitmap_vars, upcast_vars >>

\* ------------------------------------------------------------------ and, or, xor
\* Bitmap::unset_bits: the number of unset bits of the slice.
unset_bits(b) == Cardinality({i \in 0..(b.length - 1) : ~get_bit(b, i)})

\* Bitmap::new_zeroed(length); a returned bitmap is its length and the set
\* of its set positions.
new_zeroed(length) == [length |-> length, bits |-> {}]

\* MutableBitmap::with_capacity(length) after extend_constant(length, value).
extend_constant(length, value) ==
    [length |-> length, bits |-> IF value THEN 0..(length - 1) ELSE {}]

\* Bitmap::from_u8_vec(buffer, length): the first length bits of the words.
from_u8_vec(vec, length) ==
    [length |-> length,
     bits |-> {i \in 0..(length - 1) : (i % ChunkBits) \in vec[(i \div ChunkBits) + 1]}]

\* Lines 201, 218, 246: the closures and, or and xor hand to binary.
bit_op(k, x, y) ==
    CASE k = "and" -> x \cap y
      [] k = "or" -> x \cup y
      [] OTHER -> (x \ y) \cup (y \ x)

\* xor taking the all-false branch whenever the null counts agree.
xor_path_equal_nulls(lhs_nulls, rhs_nulls, lhs_len, rhs_len) ==
    IF lhs_nulls = rhs_nulls \/ (lhs_nulls = 0 /\ rhs_nulls = 0)
    THEN "new_zeroed"
    ELSE IF (lhs_nulls = 0 /\ rhs_nulls = rhs_len) \/ (lhs_nulls = lhs_len /\ rhs_nulls = 0)
         THEN "extend_constant"
         ELSE "binary"

\* Lines 233-247: the branch xor takes.
xor_path(lhs_nulls, rhs_nulls, lhs_len, rhs_len) ==
    IF (lhs_nulls = rhs_nulls /\ rhs_nulls = rhs_len) \/ (lhs_nulls = 0 /\ rhs_nulls = 0)
    THEN "new_zeroed"
    ELSE IF (lhs_nulls = 0 /\ rhs_nulls = rhs_len) \/ (lhs_nulls = lhs_len /\ rhs_nulls = 0)
         THEN "extend_constant"
         ELSE "binary"

\* A call of and, or or xor on (lhs, rhs); no join is being resolved.
KernelInit ==
    /\ \E pair \in BitmapPairs : lhs = pair[1] /\ rhs = pair[2]
    /\ kernel \in {"and", "or", "xor"}
    /\ chunk_index = 0
    /\ fold_result = 0
    /\ kernel_out = 0
    /\ fold_pc = "call"
    /\ chunk_vec = << >>
    /\ req = JoinRequest(EitherNode(1), EitherNode(2), << >>, << >>, << >>,
                         PlainOptions("Cross", "KeepColumns"), FALSE)
    /\ args = req
    /\ options = req.options
    /\ pc = "idle"
    /\ lp_arena = InitLpArena
    /\ expr_arena = << >>
    /\ input_left = 0
    /\ input_right = 0
    /\ left_on = << >>
    /\ right_on = << >>
    /\ has_scalars = FALSE
    /\ as_with_columns_l = << >>
    /\ as_with_columns_r = << >>
    /\ join_schema = << >>
    /\ join_node = 0
    /\ result = Pending
    /\ opt_calls = << >>
    /\ opt_flags = {}
    /\ warned = FALSE
    /\ in_where = FALSE
    /\ w = NoWhere
    /\ root = 0
    /\ upcast_exprs = << >>
    /\ drained = << >>
    /\ expr_origin = [err |-> "", origin |-> "None"]
    /\ ensure_pc = "idle"

\* Lines 196-203: and.
And ==
    /\ fold_pc = "call"
    /\ kernel = "and"
    /\ IF unset_bits(lhs) = lhs.length \/ unset_bits(rhs) = rhs.length
       THEN IF lhs.length = rhs.length
            THEN kernel_out' = new_zeroed(lhs.length) /\ fold_pc' = "done"
            ELSE fold_pc' = "panic" /\ UNCHANGED kernel_out
       ELSE fold_pc' = "binary" /\ UNCHANGED kernel_out
    /\ UNCHANGED << vars, upcast_vars, lhs, rhs, chunk_index, fold_result, kernel, chunk_vec >>

\* Lines 211-220: or.
Or ==
    /\ fold_pc = "call"
    /\ kernel = "or"
    /\ IF unset_bits(lhs) = 0 \/ unset_bits(rhs) = 0
       THEN IF lhs.length = rhs.length
            THEN kernel_out' = extend_constant(lhs.length, TRUE) /\ fold_pc' = "done"
            ELSE fold_pc' = "panic" /\ UNCHANGED kernel_out
       ELSE fold_pc' = "binary" /\ UNCHANGED kernel_out
    /\ UNCHANGED << vars, upcast_vars, lhs, rhs, chunk_index, fold_result, kernel, chunk_vec >>

\* Lines 228-248: xor.
Xor ==
    /\ fold_pc = "call"
    /\ kernel = "xor"
    /\ \E path \in {xor_path(unset_bits(lhs), unset_bits(rhs), lhs.length, rhs.length)} :
         IF path = "binary"
         THEN fold_pc' = "binary" /\ UNCHANGED kernel_out
         ELSE IF lhs.length # rhs.length
              THEN fold_pc' = "panic" /\ UNCHANGED kernel_out
              ELSE /\ fold_pc' = "done"
                   /\ kernel_out' = IF path = "new_zeroed" THEN new_zeroed(rhs.length)
                                    ELSE extend_constant(lhs.length, TRUE)
    /\ UNCHANGED << vars, upcast_vars, lhs, rhs, chunk_index, fold_result, kernel, chunk_vec >>

\* Line 98: assert_eq!(lhs.len(), rhs.len()) of binary.
Binary ==
    /\ fold_pc = "binary"
    /\ fold_pc' = IF lhs.length = rhs.length THEN "map" ELSE "panic"
    /\ chunk_vec' = << >>
    /\ UNCHANGED << vars, upcast_vars, lhs, rhs, chunk_index, fold_result, kernel_out, kernel >>

\* Lines 104-106 and 29-31: op of the next pair of whole chunks is pushed.
BinaryChunk ==
    /\ fold_pc = "map"
    /\ chunk_index < lhs.length \div ChunkBits
    /\ chunk_vec' = Append(chunk_vec, bit_op(kernel, chunk(lhs, chunk_index), chunk(rhs, chunk_index)))
    /\ chunk_index' = chunk_index + 1
    /\ UNCHANGED << vars, upcast_vars, lhs, rhs, fold_result, kernel_out, fold_pc, kernel >>

\* Lines 108-111 and 32: op of the remainders is pushed last and the
\* buffer becomes a bitmap of lhs.len() bits.
BinaryRemainder ==
    /\ fold_pc = "map"
    /\ chunk_index = lhs.length \div ChunkBits
    /\ \E buffer \in {Append(chunk_vec, bit_op(kernel, remainder(lhs), remainder(rhs)))} :
         /\ chunk_vec' = buffer
         /\ kernel_out' = from_u8_vec(buffer, lhs.length)
    /\ fold_pc' = "done"
    /\ UNCHANGED << vars, upcast_vars, lhs, rhs, chunk_index, fold_result, kernel >>

KernelNext ==
    \/ And
    \/ Or
    \/ Xor
    \/ Binary
    \/ BinaryChunk
    \/ BinaryRemainder

KernelSpec == KernelInit /\ [][KernelNext]_<< vars, bitmap_vars, upcast_vars >>

\* ------------------------------------------------------------------ ensure_lossless_binary_comparisons
\* The schema an expression tree is lowered against by a caller of
\* ensure_lossless_binary_comparisons: every column a tree names.
ArenaSchema ==
    Append(det_join_schema(LeftSchema, RightSchema, << >>, << >>,
                           PlainOptions("Cross", "KeepColumns")).schema,
           Field("zz", "Int64"))

\* The schemas of a call: the left schema and the schema of the cross join
\* of the left with the right input.
SchemaPairs ==
    { << sides[1], det_join_schema(sides[1], sides[2], << >>, << >>,
                                   PlainOptions("Cross", "KeepColumns")).schema >> :
        sides \in { << LeftSchema, RightSchema >>, << RightSchema, LeftSchema >> } }

\* A call of ensure_lossless_binary_comparisons on the root of a lowered
\* expression tree, with an upcast_exprs the caller may have filled.
UpcastInit ==
    /\ \E e \in DOMAIN DslExprs :
       \E p \in {to_aexpr_impl(e, ArenaSchema, << >>)} :
       \E schemas \in SchemaPairs :
          /\ req = JoinRequest(EitherPlan("scan_left"), EitherPlan("scan_right"), << >>, << >>,
                               << e >>, PlainOptions("IEJoin", "KeepColumns"), FALSE)
          /\ expr_arena = p.arena
          /\ root = p.node
          /\ w = [NoWhere EXCEPT !.schema_left = schemas[1], !.schema_merged = schemas[2]]
    /\ upcast_exprs \in { << >>, << << 1, "Int64" >> >>, << << 1, "Float64" >> >>,
                          << << 1, "Int64" >>, << 1, "Int64" >> >> }
    /\ drained = << >>
    /\ expr_origin = [err |-> "", origin |-> "None"]
    /\ ensure_pc = "build_upcast_node_list"
    /\ args = req
    /\ options = req.options
    /\ pc = "idle"
    /\ lp_arena = InitLpArena
    /\ input_left = 0
    /\ input_right = 0
    /\ left_on = << >>
    /\ right_on = << >>
    /\ has_scalars = FALSE
    /\ as_with_columns_l = << >>
    /\ as_with_columns_r = << >>
    /\ join_schema = << >>
    /\ join_node = 0
    /\ result = Pending
    /\ opt_calls = << >>
    /\ opt_flags = {}
    /\ warned = FALSE
    /\ in_where = FALSE
    /\ lhs = sliced("zeros", 0, 0)
    /\ rhs = sliced("zeros", 0, 0)
    /\ chunk_index = 0
    /\ fold_result = 0
    /\ kernel_out = 0
    /\ fold_pc = "idle"
    /\ kernel = "none"
    /\ chunk_vec = << >>

\* Line 510: the tree is visited; an error is returned at once.
BuildUpcastNodeList ==
    /\ ensure_pc = "build_upcast_node_list"
    /\ \E b \in {build_upcast_node_list(root, w.schema_left, w.schema_merged, expr_arena,
                                         upcast_exprs)} :
          /\ expr_origin' = [err |-> b.err, origin |-> b.origin]
          /\ upcast_exprs' = b.to_replace
          /\ ensure_pc' = IF b.err = "" THEN "drain" ELSE "done"
    /\ UNCHANGED << vars, bitmap_vars, root, drained >>

\* Lines 512-520: one turn of the loop over upcast_exprs.drain(..).
ReplaceNext ==
    /\ ensure_pc = "drain"
    /\ upcast_exprs # << >>
    /\ expr_arena' = replace_with_cast(expr_arena, Head(upcast_exprs)[1], Head(upcast_exprs)[2])
    /\ drained' = Append(drained, Head(upcast_exprs))
    /\ upcast_exprs' = Tail(upcast_exprs)
    /\ UNCHANGED << bitmap_vars, root, expr_origin, ensure_pc, req, args, options, pc, lp_arena,
                    input_left, input_right, left_on, right_on, has_scalars, as_with_columns_l,
                    as_with_columns_r, join_schema, join_node, result, opt_calls, opt_flags,
                    warned, in_where, w >>

\* Line 521: the loop is over.
EnsureReturn ==
    /\ ensure_pc = "drain"
    /\ upcast_exprs = << >>
    /\ ensure_pc' = "done"
    /\ UNCHANGED << vars, bitmap_vars, root, upcast_exprs, drained, expr_origin >>

UpcastNext ==
    \/ BuildUpcastNodeList
    \/ ReplaceNext
    \/ EnsureReturn

UpcastSpec == UpcastInit /\ [][UpcastNext]_<< vars, bitmap_vars, upcast_vars >>

\* ------------------------------------------------------------------ properties
\* A top-level call of resolve_join without predicates has returned.
Returned == pc = "done" /\ req.predicates = << >>

\* The output names of a list of unresolved keys.
key_names(keys) == [i \in 1..Len(keys) |-> dsl_output_name(keys[i])]

\* Lines 143-150: the same (left name, right name) pair at two positions.
same_pair_twice(l_keys, r_keys) ==
    \E i, j \in 1..Len(l_keys) :
        /\ i < j
        /\ j <= Len(r_keys)
        /\ key_names(l_keys)[i] = key_names(l_keys)[j]
        /\ key_names(r_keys)[i] = key_names(r_keys)[j]

\* A name occurs at two positions of a list.
name_twice(names) == \E i, j \in 1..Len(names) : i < j /\ names[i] = names[j]

\* Lines 280-289 and 514-518: the node is a cast the resolver inserted.
is_inserted_cast(arena, node) ==
    arena[node].kind = "Cast" /\ arena[node].options = "Overflowing"

\* The node an inserted cast wraps; the node itself when it is no such cast.
uncast(arena, node) == IF is_inserted_cast(arena, node) THEN arena[node].left ELSE node

\* The plan nodes appended since the call began.
appended_nodes == (Len(InitLpArena) + 1)..Len(lp_arena)

\* ---- C1
\* C1 as stated: a join without predicates that is neither Cross nor IEJoin,
\* and whose inputs lower, returns an error if and only if its key lists
\* differ in length or one of them is empty.
C1_FailsIffKeyCountsDiffer ==
    (Returned /\ req.options.how \notin {"Cross", "IEJoin"} /\ result.kind # "Lowering")
        => (result.status = "Err"
              <=> (\/ Len(req.left_on) # Len(req.right_on)
                   \/ req.left_on = << >>
                   \/ req.right_on = << >>))

\* C1 amended: a join without predicates that is not Cross returns an error
\* whenever its key lists differ in length or one of them is empty, before
\* any key is resolved and without a Join node; it is one sufficient
\* condition of failure among others.
C1_KeyCountMismatchFails ==
    (/\ Returned
     /\ req.options.how # "Cross"
     /\ (\/ Len(req.left_on) # Len(req.right_on)
         \/ req.left_on = << >>
         \/ req.right_on = << >>))
        => /\ result.status = "Err"
           /\ expr_arena = << >>
           /\ \A n \in 1..Len(lp_arena) : lp_arena[n].kind # "Join"

\* C1 witness: an inner join of two left keys on one right key was rejected
\* by the comparison of the key counts.
C1_Witness ==
    /\ Returned
    /\ req.options.how = "Inner"
    /\ Len(req.left_on) = 2
    /\ Len(req.right_on) = 1
    /\ result.msg = "len_mismatch"

C3_RepeatedNameOnOneSideFails ==
    /\ (pc = "rj_optimize" /\ options.how # "IEJoin")
          => (~name_twice(key_names(args.left_on)) /\ ~name_twice(key_names(args.right_on)))
    /\ result.msg = "repeated"
          => (name_twice(key_names(args.left_on)) \/ name_twice(key_names(args.right_on)))

\* C3 amended: the duplicate-key check fails, with InvalidOperation, exactly
\* when the same (left name, right name) pair occurs at two positions; a
\* name repeated on one side alone passes it.
C3_RepeatedPairFails ==
    /\ (pc = "rj_optimize" /\ options.how # "IEJoin")
          => ~same_pair_twice(args.left_on, args.right_on)
    /\ result.msg = "repeated"
          => /\ same_pair_twice(args.left_on, args.right_on)
             /\ result.status = "Err"
             /\ result.kind = "InvalidOperation"
    /\ (/\ pc = "rj_dupcheck"
        /\ ~name_twice(key_names(args.left_on))
        /\ ~name_twice(key_names(args.right_on)))
          => ~repeated_key_names(left_on, right_on)

\* C3 witness: left keys [a, a] on right keys [x, x] were rejected as repeated.
C3_Witness ==
    /\ Returned
    /\ result.msg = "repeated"
    /\ key_names(req.left_on) = << "a", "a" >>
    /\ key_names(req.right_on) = << "x", "x" >>

\* ---- C4
\* C4: when a key is scalar and the call succeeds, the names of the result
\* node are the names of the Join's schema, in order, without the columns
\* the call generated for the scalar keys: none of those remains and no
\* other column is removed.
C4_ProjectionDropsOnlySynthetic ==
    (Returned /\ result.status = "Ok" /\ has_scalars)
        => LET j == lp_arena[result.second]
               hl == lp_arena[j.input]
               hr == lp_arena[j.input_right]
               generated_l == IF hl.kind = "HStack"
                              THEN {hl.exprs[i].output_name : i \in 1..Len(hl.exprs)}
                              ELSE {}
               generated_r == IF hr.kind = "HStack"
                              THEN {hr.exprs[i].output_name : i \in 1..Len(hr.exprs)}
                              ELSE {}
               synthetic == generated_l
                              \cup {IF contains(hl.schema, n) THEN suffixed(n) ELSE n :
                                      n \in generated_r}
               kept(n) == n \notin synthetic
           IN iter_names(lp_arena[result.first].schema) = SelectSeq(iter_names(j.schema), kept)

\* ---- C5
\* C5: on success of an equality or cross join the second handle is the Join
\* node this call appended; the first handle is the second iff no key was
\* scalar, else a projection appended after the Join node and reading it.
C5_ReturnedHandles ==
    (Returned /\ result.status = "Ok")
        => /\ result.second \in appended_nodes
           /\ lp_arena[result.second].kind = "Join"
           /\ \A n \in appended_nodes : lp_arena[n].kind = "Join" => n = result.second
           /\ (result.first = result.second) <=> ~has_scalars
           /\ has_scalars <=> (\E n \in appended_nodes :
                                  /\ lp_arena[n].kind = "HStack"
                                  /\ \E i \in 1..Len(lp_arena[n].exprs) :
                                        is_scalar(expr_arena, lp_arena[n].exprs[i].node))
           /\ has_scalars => /\ lp_arena[result.first].kind = "SimpleProjection"
                             /\ result.first > result.second
                             /\ result.first = Len(lp_arena)
                             /\ lp_arena[result.first].input = result.second

\* C5 witness: a join with a scalar key returned a projection over its Join.
C5_Witness ==
    /\ Returned
    /\ result.status = "Ok"
    /\ has_scalars
    /\ result.first = result.second + 1
    /\ lp_arena[result.first].input = result.second

\* ---- C6
\* An inner join that asked for coalescing, on one pair of column keys of
\* dtypes Int32 and Int64, has succeeded.
InnerCoalesceWidening ==
    /\ Returned
    /\ result.status = "Ok"
    /\ req.options.how = "Inner"
    /\ req.options.coalesce = "CoalesceColumns"
    /\ Len(req.left_on) = 1
    /\ Len(req.right_on) = 1
    /\ DslExprs[req.left_on[1]].kind = "Column"
    /\ DslExprs[req.right_on[1]].kind = "Column"
    /\ get(LeftSchema, DslExprs[req.left_on[1]].name) = "Int32"
    /\ get(RightSchema, DslExprs[req.right_on[1]].name) = "Int64"

\* C6 as stated: such a join materializes the cast of the left key as a
\* column of the left input, and the key column of the output schema has
\* the wider dtype.
C6_InnerCoalesceMaterializesCast ==
    InnerCoalesceWidening
        => LET j == lp_arena[result.second]
               h == lp_arena[j.input]
               key == DslExprs[req.left_on[1]].name
           IN /\ h.kind = "HStack"
              /\ \E i \in 1..Len(h.exprs) :
                    /\ h.exprs[i].output_name = key
                    /\ is_inserted_cast(expr_arena, h.exprs[i].node)
              /\ get(j.schema, key) = "Int64"

\* C6 amended: such a join appends no HStack; both keys of the Join node are
\* overflow-permitting casts to Int64 around the key columns, the Join reads
\* the lowered inputs themselves, and the key column of the output schema
\* keeps the left dtype Int32, the right key column being dropped.
C6_InnerCoalesceCastsInline ==
    InnerCoalesceWidening
        => LET j == lp_arena[result.second]
               lk == j.left_on[1]
               rk == j.right_on[1]
               key == DslExprs[req.left_on[1]].name
           IN /\ \A n \in appended_nodes : lp_arena[n].kind \in {"Scan", "Join"}
              /\ lp_arena[j.input].kind = "Scan"
              /\ lp_arena[j.input_right].kind = "Scan"
              /\ is_inserted_cast(expr_arena, lk.node)
              /\ is_inserted_cast(expr_arena, rk.node)
              /\ expr_arena[lk.node].dtype = "Int64"
              /\ expr_arena[rk.node].dtype = "Int64"
              /\ expr_arena[expr_arena[lk.node].left] = AExpr("Column", key, "", 0, 0, "", "")
              /\ lk.output_name = key
              /\ get(j.schema, key) = "Int32"
              /\ Len(j.schema) = Len(ir_schema(lp_arena, j.input))
                                   + Len(ir_schema(lp_arena, j.input_right)) - 1

\* C6 witness: the inner coalescing join of id: Int32 on id: Int64 ended
\* with a cast inside the left key of its Join node.
C6_Witness ==
    /\ InnerCoalesceWidening
    /\ req.left_on = << "col_id" >>
    /\ req.right_on = << "col_id" >>
    /\ expr_arena[lp_arena[result.second].left_on[1].node].kind = "Cast"

\* ---- C7
\* C7: key coercion is idempotent: running the pairwise coercion again on
\* the key pairs of the emitted Join, against the schemas of the Join's
\* inputs, appends no cast and leaves every key expression unchanged.
C7_CoercionIdempotent ==
    (Returned /\ result.status = "Ok" /\ req.options.how # "Cross")
        => LET j == lp_arena[result.second]
               again == coerce_keys(coerce_start(j.left_on, j.right_on, expr_arena), 1,
                                    ir_schema(lp_arena, j.input),
                                    ir_schema(lp_arena, j.input_right),
                                    key_cols_coalesced(j.options))
           IN /\ again.err = ""
              /\ again.arena = expr_arena
              /\ again.left_on = j.left_on
              /\ again.right_on = j.right_on
              /\ again.as_l = << >>
              /\ again.as_r = << >>

\* ---- C8
\* C8: after resolve_join_where has handled a predicate, every comparison
\* whose operands have the origins Left and Right and different dtypes has
\* exactly the operands whose dtype is not the target dtype replaced by an
\* overflow-permitting cast to the target; no operand of any other
\* comparison is replaced.
C8_CrossTableComparisonsCast ==
    (in_where /\ pc \in {"w_pred", "done"} /\ result.status # "Err")
        => \A n \in 1..Len(expr_arena) :
              (expr_arena[n].kind = "BinaryExpr" /\ is_comparison(expr_arena[n].op))
                 => LET l == expr_arena[n].left
                        r == expr_arena[n].right
                        dl == to_dtype(expr_arena, uncast(expr_arena, l), w.schema_merged)
                        dr == to_dtype(expr_arena, uncast(expr_arena, r), w.schema_merged)
                        ol == build_upcast_node_list(l, w.schema_left, w.schema_merged,
                                                     expr_arena, << >>).origin
                        or == build_upcast_node_list(r, w.schema_left, w.schema_merged,
                                                     expr_arena, << >>).origin
                    IN IF {ol, or} = {"Left", "Right"} /\ dl # dr
                       THEN /\ is_inserted_cast(expr_arena, l) <=> dl # target_dtype(dl, dr)
                            /\ is_inserted_cast(expr_arena, r) <=> dr # target_dtype(dl, dr)
                            /\ is_inserted_cast(expr_arena, l)
                                  => expr_arena[l].dtype = target_dtype(dl, dr)
                            /\ is_inserted_cast(expr_arena, r)
                                  => expr_arena[r].dtype = target_dtype(dl, dr)
                       ELSE ~is_inserted_cast(expr_arena, l) /\ ~is_inserted_cast(expr_arena, r)

\* C8 witness: join_where on a < x and a < b has cast a, of dtype Int32, to
\* Int64 in the first comparison and left the second comparison as it was.
C8_Witness ==
    /\ pc = "done"
    /\ result.status = "Ok"
    /\ req.predicates = << "a_lt_x", "a_lt_b" >>
    /\ \E n, m \in 1..Len(expr_arena) :
          /\ expr_arena[n].kind = "BinaryExpr"
          /\ is_inserted_cast(expr_arena, expr_arena[n].left)
          /\ expr_arena[expr_arena[n].left].dtype = "Int64"
          /\ ~is_inserted_cast(expr_arena, expr_arena[n].right)
          /\ expr_arena[m].kind = "BinaryExpr"
          /\ m # n
          /\ ~is_inserted_cast(expr_arena, expr_arena[m].left)
          /\ ~is_inserted_cast(expr_arena, expr_arena[m].right)

\* ---- C9
\* Pair i of two key lists, against the schemas of the inputs: with a
\* lossless supertype both keys are overflow-permitting casts to it that
\* keep the key's name, without one the dtypes are equal and no cast is
\* inserted.
pair_unified(l_on, r_on, i, schema_left, schema_right, l_keys, r_keys) ==
    LET ol == uncast(expr_arena, l_on[i].node)
        or == uncast(expr_arena, r_on[i].node)
        ltype == to_dtype(expr_arena, ol, schema_left)
        rtype == to_dtype(expr_arena, or, schema_right)
        st == get_numeric_upcast_supertype_lossless(ltype, rtype)
        name(o, key) == IF expr_arena[o].kind = "Column" THEN expr_arena[o].name
                        ELSE dsl_output_name(key)
    IN IF st # NoSupertype
       THEN /\ expr_arena[l_on[i].node] = cast_node(ol, st)
            /\ expr_arena[r_on[i].node] = cast_node(or, st)
            /\ l_on[i].output_name = name(ol, l_keys[i])
            /\ r_on[i].output_name = name(or, r_keys[i])
       ELSE /\ ltype = rtype
            /\ ol = l_on[i].node
            /\ or = r_on[i].node

\* C9: for an equality join that is not a coalesced full join, every key
\* pair with a lossless numeric supertype has both keys of the Join node
\* cast to it, overflow-permitting and under the original name; a pair
\* without one passes iff its dtypes are equal, else the call fails with
\* SchemaMismatch and no Join node.
C9_KeyPairsUnifiedOrEqual ==
    (req.predicates = << >> /\ options.how # "Cross" /\ ~key_cols_coalesced(options))
        => /\ (pc = "done" /\ result.status = "Ok")
                 => LET j == lp_arena[result.second] IN
                    \A i \in 1..Len(j.left_on) :
                        pair_unified(j.left_on, j.right_on, i, ir_schema(lp_arena, j.input),
                                     ir_schema(lp_arena, j.input_right),
                                     req.left_on, req.right_on)
           /\ pc = "rj_elementwise"
                 => \A i \in 1..Len(left_on) :
                        pair_unified(left_on, right_on, i, ir_schema(lp_arena, input_left),
                                     ir_schema(lp_arena, input_right), req.left_on, req.right_on)
           /\ (pc = "done" /\ result.msg = "mismatch")
                 => /\ result.status = "Err"
                    /\ result.kind = "SchemaMismatch"
                    /\ \A n \in 1..Len(lp_arena) : lp_arena[n].kind # "Join"
                    /\ \E i \in 1..Len(left_on) :
                          ~pair_unified(left_on, right_on, i, ir_schema(lp_arena, input_left),
                                        ir_schema(lp_arena, input_right),
                                        req.left_on, req.right_on)

\* C9 witness: a left join of [id, b] on [w, id] succeeded: id: Int32 and
\* w: Float64 were cast, b: Int64 and id: Int64 were not.
C9_Witness ==
    /\ Returned
    /\ result.status = "Ok"
    /\ req.options.how = "Left"
    /\ req.left_on = << "col_id", "col_b" >>
    /\ req.right_on = << "col_w", "col_id" >>
    /\ is_inserted_cast(expr_arena, lp_arena[result.second].left_on[1].node)
    /\ ~is_inserted_cast(expr_arena, lp_arena[result.second].left_on[2].node)

\* ---- C10
\* The errors of the shape checks of lines 61-108.
ShapeErrors ==
    {"cross_keys", "expected_keys", "alias", "validation", "by_len", "by_column", "by_unset",
     "len_mismatch"}

\* C10: in a non-cross join with a key that is not a bare column, the Join
\* node stores KeepColumns whatever was requested, and the downgrade is no
\* cause of an error: a request whose shape is valid passes the validation,
\* and no error about coalescing non-column keys is returned; with bare
\* column keys alone the requested setting is stored unchanged.
C10_CoalesceDowngrade ==
    (req.predicates = << >> /\ req.options.how # "Cross")
        => /\ (pc = "done" /\ result.status = "Ok")
                 => lp_arena[result.second].options.coalesce
                      = (IF turn_off_coalesce(req.left_on, req.right_on) THEN "KeepColumns"
                         ELSE req.options.coalesce)
           /\ (pc = "done" /\ turn_off_coalesce(req.left_on, req.right_on))
                 => result.msg # "coalesce_non_column"
           /\ (/\ pc = "done"
               /\ turn_off_coalesce(req.left_on, req.right_on)
               /\ Len(req.left_on) = Len(req.right_on)
               /\ check_join_keys(req.left_on)
               /\ check_join_keys(req.right_on)
               /\ req.options.validation = "ManyToMany"
               /\ req.options.how # "AsOf")
                 => result.msg \notin ShapeErrors

\* C10 witness: an inner join on a + 1 that asked for coalescing succeeded
\* with a warning and a Join node that keeps the key columns.
C10_Witness ==
    /\ Returned
    /\ result.status = "Ok"
    /\ warned
    /\ req.options.coalesce = "CoalesceColumns"
    /\ req.left_on = << "a_plus_1" >>
    /\ lp_arena[result.second].options.coalesce = "KeepColumns"

\* ---- C11
\* C11: an equality-join request with an Alias node anywhere in a key, once
\* its inputs are lowered, fails with InvalidOperation, and a join_where
\* call with an Alias node in a predicate fails with InvalidOperation; in
\* both cases nothing was resolved into the expression arena and no Join
\* node was appended.
C11_AliasRejectedEarly ==
    LET has_alias(keys) == \E i \in 1..Len(keys) : has_expr(keys[i], {"Alias"}) IN
    /\ (req.predicates = << >> /\ (has_alias(req.left_on) \/ has_alias(req.right_on)))
          => /\ pc \in {"rj_start", "rj_lower", "rj_validate", "done"}
             /\ expr_arena = << >>
             /\ \A n \in 1..Len(lp_arena) : lp_arena[n].kind # "Join"
             /\ pc = "done"
                   => /\ result.status = "Err"
                      /\ input_left # 0 => result.kind = "InvalidOperation"
    /\ (has_alias(req.predicates) /\ result.status # "Panic")
          => /\ pc \in {"rj_start", "w_start", "done"}
             /\ expr_arena = << >>
             /\ lp_arena = InitLpArena
             /\ pc = "done" => (result.status = "Err" /\ result.kind = "InvalidOperation")

\* C11 witness: a join on (alias of a) + 1 was rejected for its alias after
\* its inputs were lowered.
C11_Witness ==
    /\ pc = "done"
    /\ req.left_on = << "alias_plus_1" >>
    /\ req.options.how = "Inner"
    /\ input_left # 0
    /\ result.status = "Err"
    /\ result.msg = "alias"
    /\ result.kind = "InvalidOperation"

\* ---- C12
\* C12: in the Join of a successful equality join, a key pair with a
\* lossless supertype is, for a Full join with coalescing in effect, cast in
\* an HStack on each side under the key's own name, the two HStacks being
\* the Join's inputs and older than the Join, the Join's keys staying the
\* bare columns; for any other join the casts are the Join's keys and no
\* appended HStack holds an inserted cast.
C12_FullCoalesceMaterializesCasts ==
    (Returned /\ result.status = "Ok" /\ req.options.how # "Cross")
        => LET j == lp_arena[result.second]
               full_coalesced == j.options.how = "Full" /\ j.options.coalesce = "CoalesceColumns"
               holds_cast(n) == /\ lp_arena[n].kind = "HStack"
                                /\ \E e \in 1..Len(lp_arena[n].exprs) :
                                       is_inserted_cast(expr_arena, lp_arena[n].exprs[e].node)
               below(n) == IF holds_cast(n) THEN lp_arena[n].input ELSE n
               st(i) == get_numeric_upcast_supertype_lossless(
                            to_dtype(expr_arena, uncast(expr_arena, j.left_on[i].node),
                                     ir_schema(lp_arena, below(j.input))),
                            to_dtype(expr_arena, uncast(expr_arena, j.right_on[i].node),
                                     ir_schema(lp_arena, below(j.input_right))))
               materialized(n, key, dt) ==
                   /\ holds_cast(n)
                   /\ n < result.second
                   /\ \E e \in 1..Len(lp_arena[n].exprs) :
                          /\ lp_arena[n].exprs[e].output_name = key.output_name
                          /\ expr_arena[lp_arena[n].exprs[e].node] = cast_node(key.node, dt)
               widened == {i \in 1..Len(j.left_on) : st(i) # NoSupertype}
           IN IF full_coalesced
              THEN /\ \A i \in widened :
                         /\ materialized(j.input, j.left_on[i], st(i))
                         /\ materialized(j.input_right, j.right_on[i], st(i))
                         /\ expr_arena[j.left_on[i].node].kind = "Column"
                         /\ expr_arena[j.right_on[i].node].kind = "Column"
                   /\ widened = {} => \A n \in appended_nodes : ~holds_cast(n)
                   /\ \A n \in appended_nodes : holds_cast(n) => n \in {j.input, j.input_right}
              ELSE /\ \A i \in widened :
                         /\ expr_arena[j.left_on[i].node]
                               = cast_node(expr_arena[j.left_on[i].node].left, st(i))
                         /\ expr_arena[j.right_on[i].node]
                               = cast_node(expr_arena[j.right_on[i].node].left, st(i))
                   /\ \A n \in appended_nodes : ~holds_cast(n)

\* C12 witness: a coalescing full join of id: Int32 on id: Int64 succeeded
\* and its Join reads two HStacks appended before it.
C12_Witness ==
    /\ Returned
    /\ result.status = "Ok"
    /\ req.options = PlainOptions("Full", "CoalesceColumns")
    /\ req.left_on = << "col_id" >>
    /\ req.right_on = << "col_id" >>
    /\ lp_arena[lp_arena[result.second].input].kind = "HStack"
    /\ lp_arena[lp_arena[result.second].input_right].kind = "HStack"
    /\ lp_arena[result.second].input < result.second

\* ---- C13
\* C13: every HStack node the call appended records, for each column it
\* computes, the dtype of the computing expression against the schema of
\* the HStack's input; and the two key columns of each pair of the Join
\* have equal dtypes against the schemas of the Join's inputs.
C13_HStackSchemaConsistent ==
    (Returned /\ result.status = "Ok")
        => /\ \A n \in appended_nodes :
                 lp_arena[n].kind = "HStack"
                    => \A e \in 1..Len(lp_arena[n].exprs) :
                          /\ contains(lp_arena[n].schema, lp_arena[n].exprs[e].output_name)
                          /\ get(lp_arena[n].schema, lp_arena[n].exprs[e].output_name)
                                = to_dtype(expr_arena, lp_arena[n].exprs[e].node,
                                           ir_schema(lp_arena, lp_arena[n].input))
           /\ LET j == lp_arena[result.second] IN
              \A i \in 1..Len(j.left_on) :
                  to_dtype(expr_arena, j.left_on[i].node, ir_schema(lp_arena, j.input))
                    = to_dtype(expr_arena, j.right_on[i].node, ir_schema(lp_arena, j.input_right))

\* ---- C14
\* C14 as stated: an equality join with an aggregate or window node in a
\* supplied key returns an error, InvalidOperation when it is the
\* elementwise check that fails, and appends no Join node.
C14_NonElementwiseKeyFails ==
    LET non_elementwise(keys) == \E i \in 1..Len(keys) : has_expr(keys[i], {"Agg", "Window"}) IN
    (Returned /\ (non_elementwise(req.left_on) \/ non_elementwise(req.right_on)))
        => /\ result.status = "Err"
           /\ result.msg = "elementwise" => result.kind = "InvalidOperation"
           /\ \A n \in 1..Len(lp_arena) : lp_arena[n].kind # "Join"

\* C14 amended: an equality join with an aggregate or window node in a
\* supplied key that is not a scalar returns an error, InvalidOperation when
\* it is the elementwise check that fails, and appends no Join node; a key
\* that is a scalar is lifted to a temporary column before the check, and
\* the keys of every Join node appended are elementwise.
C14_NonScalarNonElementwiseKeyFails ==
    LET scalar(k, schema) ==
            LET r == to_aexpr_impl(k, schema, << >>) IN r.ok /\ is_scalar(r.arena, r.node)
        rejected(keys, schema) ==
            \E i \in 1..Len(keys) :
                has_expr(keys[i], {"Agg", "Window"}) /\ ~scalar(keys[i], schema)
    IN /\ (Returned /\ (rejected(req.left_on, LeftSchema) \/ rejected(req.right_on, RightSchema)))
             => /\ result.status = "Err"
                /\ result.msg = "elementwise" => result.kind = "InvalidOperation"
                /\ \A n \in 1..Len(lp_arena) : lp_arena[n].kind # "Join"
       /\ \A n \in appended_nodes :
             lp_arena[n].kind = "Join"
                => /\ all_elementwise(lp_arena[n].left_on, expr_arena)
                   /\ all_elementwise(lp_arena[n].right_on, expr_arena)

\* C14 witness: a join on a + sum(a), a key that is not a scalar, passed the
\* coercion and was rejected by the elementwise check.
C14_Witness ==
    /\ Returned
    /\ req.left_on = << "a_plus_sum" >>
    /\ result.status = "Err"
    /\ result.msg = "elementwise"
    /\ result.kind = "InvalidOperation"
    /\ \A n \in 1..Len(lp_arena) : lp_arena[n].kind # "Join"

\* ---- C15
\* Lines 459-463: the arena holds, at the node, the expression e lowered,
\* casts inserted by the resolver aside.
RECURSIVE resolves(_, _, _)
resolves(arena, node, e) ==
    LET d == DslExprs[e]
        ae == arena[uncast(arena, node)]
    IN IF d.kind = "Alias" THEN resolves(arena, node, d.left)
       ELSE /\ ae.kind = d.kind
            /\ ae.op = d.op
            /\ d.kind = "Column" => ae.name = d.name
            /\ d.left # "" => resolves(arena, ae.left, d.left)
            /\ d.right # "" => resolves(arena, ae.right, d.right)

\* C15: a successful join_where over predicates p1..pn returns (f_n, j): j
\* is a Join node of kind Cross without keys, whatever kind was asked for,
\* and the n nodes appended after it are Filter nodes in predicate order,
\* the first reading j, each next one reading the one before, the k-th
\* holding the resolved k-th predicate.
C15_CrossJoinThenFilterChain ==
    (pc = "done" /\ req.predicates # << >> /\ result.status = "Ok")
        => LET j == result.second
               n == Len(req.predicates)
           IN /\ lp_arena[j].kind = "Join"
              /\ lp_arena[j].options.how = "Cross"
              /\ lp_arena[j].left_on = << >>
              /\ lp_arena[j].right_on = << >>
              /\ result.first = j + n
              /\ Len(lp_arena) = j + n
              /\ \A k \in 1..n :
                    /\ lp_arena[j + k].kind = "Filter"
                    /\ lp_arena[j + k].input = j + k - 1
                    /\ lp_arena[j + k].predicate.output_name = dsl_output_name(req.predicates[k])
                    /\ resolves(expr_arena, lp_arena[j + k].predicate.node, req.predicates[k])

\* C15 witness: join_where over a < x and x < u, asked for as an IEJoin,
\* returned the second of two filters over a cross join.
C15_Witness ==
    /\ pc = "done"
    /\ result.status = "Ok"
    /\ req.predicates = << "a_lt_x", "x_lt_u" >>
    /\ req.options.how = "IEJoin"
    /\ result.first = result.second + 2
    /\ lp_arena[result.first].kind = "Filter"
    /\ lp_arena[result.second].options.how = "Cross"

\* ---- C16
\* C16: join_where with a predicate that resolves to a dtype other than
\* Boolean does not succeed and appends a Filter for no predicate from the
\* first such one on; when the call fails on the dtype of predicate k, it
\* is the first such predicate, the k - 1 predicates before it have their
\* Filter nodes, and the arena ends with predicate k as it was lowered, no
\* node of it replaced by a cast.
C16_FirstNonBooleanPredicateFails ==
    LET dtype_of(p) ==
            LET r == to_aexpr_impl(p, w.schema_merged, << >>) IN
            IF r.ok THEN to_dtype(r.arena, r.node, w.schema_merged) ELSE DtypeError
        non_boolean == {k \in 1..Len(req.predicates) :
                           dtype_of(req.predicates[k]) \notin {"Boolean", DtypeError}}
        filters == {n \in 1..Len(lp_arena) : lp_arena[n].kind = "Filter"}
    IN (in_where /\ pc \in {"w_pred", "done"})
          => /\ \A k \in non_boolean : Cardinality(filters) < k
             /\ (pc = "done" /\ non_boolean # {}) => result.status = "Err"
             /\ (pc = "done" /\ result.msg = "not_boolean")
                   => /\ w.i \in non_boolean
                      /\ \A k \in non_boolean : w.i <= k
                      /\ Cardinality(filters) = w.i - 1
                      /\ \E m \in 1..Len(expr_arena) :
                            to_aexpr_impl(req.predicates[w.i], w.schema_merged,
                                          SubSeq(expr_arena, 1, Len(expr_arena) - m)).arena
                              = expr_arena

\* C16 witness: join_where over a < u and cast(a < x) failed on the Int64
\* dtype of the second predicate, after the Filter of the first one.
C16_Witness ==
    /\ pc = "done"
    /\ req.predicates = << "a_lt_u", "cast_a_lt_x" >>
    /\ result.status = "Err"
    /\ result.msg = "not_boolean"
    /\ w.i = 2
    /\ Cardinality({n \in 1..Len(lp_arena) : lp_arena[n].kind = "Filter"}) = 1
    /\ ~is_inserted_cast(expr_arena, expr_arena[expr_arena[Len(expr_arena)].left].left)

\* ---- C17
\* C17 as stated: a join_where call that stops at a predicate of a dtype
\* other than Boolean reports InvalidOperation, and an equality join
\* rejected for a repeated pair of key names reports SchemaMismatch.
C17_KindsOfTheTaxonomy ==
    /\ (pc = "done" /\ result.msg = "not_boolean")
          => (result.status = "Err" /\ result.kind = "InvalidOperation")
    /\ (pc = "done" /\ result.msg = "repeated")
          => (result.status = "Err" /\ result.kind = "SchemaMismatch")

\* C17 amended: a join_where call that stops at its first predicate of a
\* dtype other than Boolean reports ComputeError, and an equality join
\* whose keys repeat a pair of names, and pass every earlier check, reports
\* InvalidOperation.
C17_KindsOfTheCode ==
    LET dtype_of(p) ==
            LET r == to_aexpr_impl(p, w.schema_merged, << >>) IN
            IF r.ok THEN to_dtype(r.arena, r.node, w.schema_merged) ELSE DtypeError
        non_boolean == {k \in 1..Len(req.predicates) :
                           dtype_of(req.predicates[k]) \notin {"Boolean", DtypeError}}
    IN /\ (pc = "done" /\ in_where /\ w.i \in non_boolean)
             => /\ result.status = "Err"
                /\ result.kind = "ComputeError"
       /\ (/\ Returned
           /\ same_pair_twice(req.left_on, req.right_on)
           /\ req.options.how \notin {"Cross", "IEJoin"}
           /\ result.kind \notin {"Lowering", "ColumnNotFound", "ComputeError"})
             => /\ result.status = "Err"
                /\ result.kind = "InvalidOperation"

\* C17 witness: join_where over a + x stopped with a ComputeError at its
\* one predicate, of dtype Int64.
C17_Witness ==
    /\ pc = "done"
    /\ in_where
    /\ req.predicates = << "a_plus_x" >>
    /\ w.i = 1
    /\ result.status = "Err"
    /\ result.kind = "ComputeError"
    /\ result.msg = "not_boolean"

\* ---- C18
\* C18 as stated: a successful equality join has called the optimizer
\* twice, over the left keys and the left input, then over the right keys
\* and the right input, with is_join_key = true; a successful inequality
\* join has called it once, over the predicates of the filters and the
\* last filter, with is_join_key = false.
C18_OptimizerCalledOncePerWhere ==
    /\ (Returned /\ result.status = "Ok")
          => /\ Len(opt_calls) = 2
             /\ opt_calls[1].is_join_key
             /\ opt_calls[2].is_join_key
    /\ (pc = "done" /\ req.predicates # << >> /\ result.status = "Ok")
          => /\ Len(opt_calls) = 1
             /\ ~opt_calls[1].is_join_key
             /\ opt_calls[1].input = result.first

\* C18 amended: a successful equality join has called the optimizer twice,
\* over the resolved left keys and the lowered left input, then over the
\* resolved right keys and the lowered right input, with is_join_key = true;
\* a successful inequality join has called it three times: twice over no
\* expression with is_join_key = true, by the resolution of its cross join,
\* then once over the predicates of the filters, in order, and the last
\* filter, with is_join_key = false; that third call comes after the loop
\* over the predicates.
C18_OptimizerCalls ==
    LET lowered_left == IF req.input_left.form = "Node" THEN req.input_left.node
                        ELSE Len(InitLpArena) + 1
        lowered_right == IF req.input_right.form = "Node" THEN req.input_right.node
                         ELSE IF req.input_left.form = "Node" THEN Len(InitLpArena) + 1
                         ELSE Len(InitLpArena) + 2
    IN /\ (Returned /\ result.status = "Ok")
             => /\ Len(opt_calls) = 2
                /\ opt_calls[1].is_join_key
                /\ opt_calls[2].is_join_key
                /\ opt_calls[1].input = lowered_left
                /\ opt_calls[2].input = lowered_right
                /\ Len(opt_calls[1].exprs) = Len(req.left_on)
                /\ Len(opt_calls[2].exprs) = Len(req.right_on)
                /\ \A i \in 1..Len(req.left_on) :
                      resolves(expr_arena, opt_calls[1].exprs[i], req.left_on[i])
                /\ \A i \in 1..Len(req.right_on) :
                      resolves(expr_arena, opt_calls[2].exprs[i], req.right_on[i])
       /\ (pc = "done" /\ req.predicates # << >> /\ result.status = "Ok")
             => /\ Len(opt_calls) = 3
                /\ opt_calls[1] = OptCall(<< >>, lowered_left, TRUE)
                /\ opt_calls[2] = OptCall(<< >>, lowered_right, TRUE)
                /\ ~opt_calls[3].is_join_key
                /\ opt_calls[3].input = result.first
                /\ opt_calls[3].exprs
                      = [k \in 1..Len(req.predicates) |->
                            lp_arena[result.second + k].predicate.node]
       /\ pc = "w_pred" => Len(opt_calls) = 2

\* C18 witness: join_where over a < x succeeded after three calls of the
\* optimizer, the last one over the predicate.
C18_Witness ==
    /\ pc = "done"
    /\ result.status = "Ok"
    /\ req.predicates = << "a_lt_x" >>
    /\ Len(opt_calls) = 3
    /\ opt_calls[1].exprs = << >>
    /\ opt_calls[3].exprs = << lp_arena[result.first].predicate.node >>
    /\ ~opt_calls[3].is_join_key

\* ---- C19
\* C19: a call of resolve_join with predicates and with a key on either side
\* is rejected: it ends in an error or an abort, never in a plan.
C19_PredicatesWithKeysRejected ==
    (pc = "done" /\ req.predicates # << >> /\ Len(req.left_on) + Len(req.right_on) > 0)
        => result.status \in {"Err", "Panic"}

\* ---- C20
\* C20: for two bitmaps of equal length, slices at any bit offset and of any
\* length, 0 included, num_intersections_with returns the number of
\* positions below the length at which both bitmaps are set.
C20_CountsCommonSetBits ==
    fold_pc = "done"
        => kernel_out = Cardinality({i \in 0..(lhs.length - 1) : get_bit(lhs, i) /\ get_bit(rhs, i)})

\* C20 witness: the call on two slices of 69 bits, at the bit offsets 3 and
\* 9 of buffers with set bits on either side of the slices, returned 11.
C20_Witness ==
    /\ fold_pc = "done"
    /\ lhs = sliced("even", 3, ChunkBits + 5)
    /\ rhs = sliced("third", 9, ChunkBits + 5)
    /\ chunk_index = 1
    /\ kernel_out = 11

\* ---- C21
\* C21: the duplicate-key check, run for every join kind but IEJoin, rejects
\* the request exactly when some ordered pair (left key output name, right
\* key output name) occurs at two key positions; the names compared are
\* those of the keys as given, no scalar key having been replaced by a
\* temporary column yet.
C21_DuplicatePairRejectedBeforeScalars ==
    /\ pc = "rj_dupcheck"
          => /\ [i \in 1..Len(left_on) |-> left_on[i].output_name] = key_names(args.left_on)
             /\ [i \in 1..Len(right_on) |-> right_on[i].output_name] = key_names(args.right_on)
    /\ (/\ pc \in {"rj_optimize", "rj_scalars", "rj_coerce", "rj_elementwise", "rj_schema",
                    "rj_materialize", "rj_emit", "rj_return"}
        /\ options.how # "IEJoin")
          => ~same_pair_twice(args.left_on, args.right_on)
    /\ result.msg = "repeated"
          => /\ result.status = "Err"
             /\ options.how # "IEJoin"
             /\ same_pair_twice(args.left_on, args.right_on)
             /\ ~has_scalars
             /\ \A n \in 1..Len(lp_arena) : lp_arena[n].kind = "Scan"
             /\ \A n \in 1..Len(expr_arena) : ~starts_with_tmp_prefix(expr_arena[n].name)

\* C21 witness: the literal keys [5, 5] on [x, x] were rejected as the pair
\* (literal, x) repeated, though each literal would have taken a temporary
\* name of its own.
C21_Witness ==
    /\ Returned
    /\ result.msg = "repeated"
    /\ req.left_on = << "lit5", "lit5" >>
    /\ req.right_on = << "col_x", "col_x" >>
    /\ \E i \in 1..2 : is_scalar(expr_arena, left_on[i].node)

\* ---- C22
\* C22: build_upcast_node_list returns the origin of the columns it can see
\* from the root through Cast and BinaryExpr nodes alone: a column of the
\* left schema is Left, in the merged schema too; a column of the merged
\* schema alone is Right; a column of neither fails the call, with
\* ColumnNotFound when it is the first failure; no column at all is None, as
\* for a literal; the origins of the operands of a BinaryExpr are joined;
\* and a node of any other kind is None whatever is below it.
C22_OriginOfVisibleColumns ==
    LET seen[n \in 1..Len(expr_arena)] ==
            \/ n = root
            \/ \E p \in (n + 1)..Len(expr_arena) :
                  /\ seen[p]
                  /\ \/ expr_arena[p].kind \in {"Cast", "BinaryExpr"} /\ expr_arena[p].left = n
                     \/ expr_arena[p].kind = "BinaryExpr" /\ expr_arena[p].right = n
        side(n) == IF contains(w.schema_left, expr_arena[n].name) THEN "Left"
                   ELSE IF contains(w.schema_merged, expr_arena[n].name) THEN "Right"
                   ELSE "Missing"
        sides == {side(n) : n \in {m \in 1..Len(expr_arena) :
                                      seen[m] /\ expr_arena[m].kind = "Column"}}
    IN (ensure_pc \in {"drain", "done"} /\ drained = << >>)
          => /\ expr_origin.err = "ColumnNotFound" => "Missing" \in sides
             /\ "Missing" \in sides => expr_origin.err # ""
             /\ (expr_arena[root].kind = "Column" /\ "Missing" \in sides)
                   => expr_origin.err = "ColumnNotFound"
             /\ expr_origin.err = ""
                   => expr_origin.origin = (CASE sides = {} -> "None"
                                              [] sides = {"Left"} -> "Left"
                                              [] sides = {"Right"} -> "Right"
                                              [] OTHER -> "Both")
             /\ expr_arena[root].kind \notin {"Column", "Cast", "BinaryExpr"}
                   => expr_origin = [err |-> "", origin |-> "None"]

\* C22 witness: cast(a) < u, with a in the left and u in the right table,
\* was visited through the Cast and has the origin Both.
C22_Witness ==
    /\ ensure_pc = "drain"
    /\ drained = << >>
    /\ req.predicates = << "casta_lt_u" >>
    /\ w.schema_left = LeftSchema
    /\ expr_arena[expr_arena[root].left].kind = "Cast"
    /\ expr_origin = [err |-> "", origin |-> "Both"]

\* ---- C23
\* C23 as stated: in join_where, a comparison of a left-table with a
\* right-table operand of another dtype has both operands cast to the
\* target dtype: the lossless numeric supertype when an operand is primitive
\* numeric, else the general supertype; the call fails, with SchemaMismatch
\* in the numeric case, when the target does not exist.
C23_BothOperandsCast ==
    LET cmp == {n \in 1..Len(expr_arena) :
                   /\ expr_arena[n].kind = "BinaryExpr"
                   /\ is_comparison(expr_arena[n].op)
                   /\ {build_upcast_node_list(expr_arena[n].left, w.schema_left, w.schema_merged,
                                               expr_arena, << >>).origin,
                       build_upcast_node_list(expr_arena[n].right, w.schema_left, w.schema_merged,
                                              expr_arena, << >>).origin} = {"Left", "Right"}}
        dl(n) == to_dtype(expr_arena, uncast(expr_arena, expr_arena[n].left), w.schema_merged)
        dr(n) == to_dtype(expr_arena, uncast(expr_arena, expr_arena[n].right), w.schema_merged)
        numeric(n) == is_primitive_numeric(dl(n)) \/ is_primitive_numeric(dr(n))
        target(n) == IF numeric(n) THEN get_numeric_upcast_supertype_lossless(dl(n), dr(n))
                     ELSE try_get_supertype(dl(n), dr(n))
        untouched(n) == /\ ~is_inserted_cast(expr_arena, expr_arena[n].left)
                        /\ ~is_inserted_cast(expr_arena, expr_arena[n].right)
        cast_to(o, dt) == is_inserted_cast(expr_arena, o) /\ expr_arena[o].dtype = dt
    IN (in_where /\ pc \in {"w_pred", "done"})
          => /\ result.status # "Err"
                   => \A n \in cmp :
                         dl(n) # dr(n)
                            => /\ target(n) # NoSupertype
                               /\ cast_to(expr_arena[n].left, target(n))
                               /\ cast_to(expr_arena[n].right, target(n))
             /\ result.msg = "cannot_compare"
                   => /\ result.kind = "SchemaMismatch"
                      /\ \E n \in cmp : /\ dl(n) # dr(n)
                                         /\ numeric(n)
                                         /\ target(n) = NoSupertype
                                         /\ untouched(n)
             /\ result.msg = "no_supertype"
                   => /\ result.status = "Err"
                      /\ \E n \in cmp : /\ dl(n) # dr(n)
                                         /\ ~numeric(n)
                                         /\ target(n) = NoSupertype
                                         /\ untouched(n)

\* C23 amended: as above, but only an operand whose dtype is not the target
\* is cast to it; an operand that has the target dtype is left as it is.
C23_NonMatchingOperandsCast ==
    LET cmp == {n \in 1..Len(expr_arena) :
                   /\ expr_arena[n].kind = "BinaryExpr"
                   /\ is_comparison(expr_arena[n].op)
                   /\ {build_upcast_node_list(expr_arena[n].left, w.schema_left, w.schema_merged,
                                               expr_arena, << >>).origin,
                       build_upcast_node_list(expr_arena[n].right, w.schema_left, w.schema_merged,
                                              expr_arena, << >>).origin} = {"Left", "Right"}}
        dl(n) == to_dtype(expr_arena, uncast(expr_arena, expr_arena[n].left), w.schema_merged)
        dr(n) == to_dtype(expr_arena, uncast(expr_arena, expr_arena[n].right), w.schema_merged)
        numeric(n) == is_primitive_numeric(dl(n)) \/ is_primitive_numeric(dr(n))
        target(n) == IF numeric(n) THEN get_numeric_upcast_supertype_lossless(dl(n), dr(n))
                     ELSE try_get_supertype(dl(n), dr(n))
        untouched(n) == /\ ~is_inserted_cast(expr_arena, expr_arena[n].left)
                        /\ ~is_inserted_cast(expr_arena, expr_arena[n].right)
        cast_to(o, dt) == is_inserted_cast(expr_arena, o) /\ expr_arena[o].dtype = dt
    IN (in_where /\ pc \in {"w_pred", "done"})
          => /\ result.status # "Err"
                   => \A n \in cmp :
                         dl(n) # dr(n)
                            => /\ target(n) # NoSupertype
                               /\ IF dl(n) # target(n)
                                  THEN cast_to(expr_arena[n].left, target(n))
                                  ELSE ~is_inserted_cast(expr_arena, expr_arena[n].left)
                               /\ IF dr(n) # target(n)
                                  THEN cast_to(expr_arena[n].right, target(n))
                                  ELSE ~is_inserted_cast(expr_arena, expr_arena[n].right)
             /\ result.msg = "cannot_compare"
                   => /\ result.kind = "SchemaMismatch"
                      /\ \E n \in cmp : /\ dl(n) # dr(n)
                                         /\ numeric(n)
                                         /\ target(n) = NoSupertype
                                         /\ untouched(n)
             /\ result.msg = "no_supertype"
                   => /\ result.status = "Err"
                      /\ \E n \in cmp : /\ dl(n) # dr(n)
                                         /\ ~numeric(n)
                                         /\ target(n) = NoSupertype
                                         /\ untouched(n)

\* C23 witness: join_where on a < u and d < t has cast a: Int32 and
\* u: UInt32 to Int64, and d: Date to Datetime beside t: Datetime.
C23_Witness ==
    /\ pc = "done"
    /\ result.status = "Ok"
    /\ req.predicates = << "a_lt_u", "d_lt_t" >>
    /\ expr_arena[1] = cast_node(4, "Int64")
    /\ expr_arena[2] = cast_node(5, "Int64")
    /\ expr_arena[4] = AExpr("Column", "a", "", 0, 0, "", "")
    /\ expr_arena[5] = AExpr("Column", "u", "", 0, 0, "", "")
    /\ expr_arena[6] = cast_node(9, "Datetime")
    /\ expr_arena[7] = AExpr("Column", "t", "", 0, 0, "", "")

C26_AsOfByColumns ==
    LET l == req.options.left_by
        r == req.options.right_by
        by_errors == {"by_unset", "by_len", "by_column"}
        missing == \/ \E i \in 1..Len(l.cols) : ~contains(LeftSchema, l.cols[i])
                   \/ \E i \in 1..Len(r.cols) : ~contains(RightSchema, r.cols[i])
    IN (/\ Returned
        /\ req.options.how = "AsOf"
        /\ req.input_left = EitherNode(1)
        /\ req.input_right = EitherNode(2)
        /\ Len(req.left_on) + Len(req.right_on) > 0
        /\ check_join_keys(req.left_on)
        /\ check_join_keys(req.right_on)
        /\ req.options.validation = "ManyToMany")
          => /\ l.some # r.some
                   => result = Err("by_unset") /\ result.kind = "InvalidOperation"
             /\ (l.some /\ r.some /\ Len(l.cols) # Len(r.cols))
                   => result = Err("by_len") /\ result.kind = "InvalidOperation"
             /\ (l.some /\ r.some /\ Len(l.cols) = Len(r.cols) /\ missing)
                   => result = Err("by_column") /\ result.kind = "ColumnNotFound"
             /\ ((~l.some /\ ~r.some) \/ (l.some /\ r.some /\ Len(l.cols) = Len(r.cols) /\ ~missing))
                   => result.msg \notin by_errors
             /\ result.msg \in by_errors => expr_arena = << >> /\ lp_arena = InitLpArena

\* C26 witness: an AsOf join by x on the left and id on the right was
\* rejected, x being no column of the left input, before its keys were
\* resolved.
C26_Witness ==
    /\ Returned
    /\ req.options.how = "AsOf"
    /\ req.options.left_by = SomeBy(<< "x" >>)
    /\ req.options.right_by = SomeBy(<< "id" >>)
    /\ result.kind = "ColumnNotFound"
    /\ expr_arena = << >>

\* ---- C27
\* C27: when the scalar step of a call is over, the scalar keys, the left
\* ones first and then the right ones, have the temporary names of the
\* counts 0, 1, 2, ... in that order; the names are pairwise distinct and
\* none is a column of the left or the right input; each scalar key is, at
\* its position, a plain column of its temporary name; each side that has a
\* scalar key has one HStack over its input, with the scalar keys as its
\* expressions; and every other key is as it was resolved.
C27_ScalarKeysTakeFreshNames ==
    (pc = "rj_coerce" /\ has_scalars)
        => LET in_l == IF lp_arena[input_left].kind = "HStack" THEN lp_arena[input_left].input
                       ELSE input_left
               in_r == IF lp_arena[input_right].kind = "HStack" THEN lp_arena[input_right].input
                       ELSE input_right
               l == to_expr_irs(args.left_on, ir_schema(lp_arena, in_l), << >>)
               r == to_expr_irs(args.right_on, ir_schema(lp_arena, in_r), l.arena)
               sl == scalar_positions(l.exprs, r.arena)
               sr == scalar_positions(r.exprs, r.arena)
               rank_l(i) == Cardinality({j \in sl : j < i})
               rank_r(i) == Cardinality(sl) + Cardinality({j \in sr : j < i})
               names == {get_tmp_name(k) : k \in 0..(Cardinality(sl) + Cardinality(sr) - 1)}
               is_col(e, name) == /\ e.output_name = name
                                  /\ expr_arena[e.node] = AExpr("Column", name, "", 0, 0, "", "")
               lifted(h, before, S) ==
                   /\ h.kind = "HStack"
                   /\ Len(h.exprs) = Cardinality(S)
                   /\ \A i \in S : \E k \in 1..Len(h.exprs) :
                         /\ h.exprs[k].node = before[i].node
                         /\ k = Cardinality({j \in S : j < i}) + 1
           IN /\ \A i \in sl : is_col(left_on[i], get_tmp_name(rank_l(i)))
              /\ \A i \in sr : is_col(right_on[i], get_tmp_name(rank_r(i)))
              /\ Cardinality(names) = Cardinality(sl) + Cardinality(sr)
              /\ \A n \in names : /\ ~contains(ir_schema(lp_arena, in_l), n)
                                   /\ ~contains(ir_schema(lp_arena, in_r), n)
              /\ \A i \in (1..Len(left_on)) \ sl : left_on[i] = l.exprs[i]
              /\ \A i \in (1..Len(right_on)) \ sr : right_on[i] = r.exprs[i]
              /\ (sl # {}) <=> in_l # input_left
              /\ (sr # {}) <=> in_r # input_right
              /\ sl # {} => lifted(lp_arena[input_left], l.exprs, sl)
              /\ sr # {} => lifted(lp_arena[input_right], r.exprs, sr)
              /\ Cardinality({n \in appended_nodes : lp_arena[n].kind = "HStack"})
                    = Cardinality({side \in {"l", "r"} :
                                      (IF side = "l" THEN sl ELSE sr) # {}})

\* ---- C28
\* C28: a call of and, or or xor on two bitmaps of one length returns, on
\* the fast paths as on the chunked one and for length 0 too, a bitmap of
\* that length whose bit i is the and, or or xor of bit i of the operands;
\* a call on bitmaps of different lengths returns nothing: it is still
\* before an assertion or it has panicked.
C28_BitwiseResultOrPanic ==
    /\ fold_pc = "done"
          => /\ lhs.length = rhs.length
             /\ kernel_out.length = lhs.length
             /\ kernel_out.bits =
                   {i \in 0..(lhs.length - 1) :
                      CASE kernel = "and" -> get_bit(lhs, i) /\ get_bit(rhs, i)
                        [] kernel = "or" -> get_bit(lhs, i) \/ get_bit(rhs, i)
                        [] OTHER -> get_bit(lhs, i) # get_bit(rhs, i)}
    /\ lhs.length # rhs.length
          => /\ fold_pc \in {"call", "binary", "panic"}
             /\ kernel_out = 0

\* C28 witness: xor of two slices of 69 bits at the bit offsets 0 and 3 of
\* a buffer with every other bit set went through binary, one whole chunk
\* and the remainder, and returned 69 set bits.
C28_Witness ==
    /\ fold_pc = "done"
    /\ kernel = "xor"
    /\ lhs = sliced("even", 0, ChunkBits + 5)
    /\ rhs = sliced("even", 3, ChunkBits + 5)
    /\ Len(chunk_vec) = 2
    /\ kernel_out = extend_constant(ChunkBits + 5, TRUE)

\* ---- C29
\* C29: resolve_join never aborts: whatever the form of the two inputs, the
\* key lists and the predicates, the call has not panicked, and when it is
\* over it has returned Ok or an error; in particular a call with
\* predicates and an already-lowered input has.
C29_NeverAborts ==
    /\ result.status # "Panic"
    /\ pc = "done" => result.status \in {"Ok", "Err"}

\* ---- C30
\* C30: no call ends in the error about coalescing a full join on keys
\* that are not columns: when the coercion loop is about to run with
\* coalescing in effect on a Full join, every key of the request is a bare
\* column, no scalar key was lifted and every left and right key node is a
\* Column; and a request with any other key reaches the loop with
\* coalescing turned off.
C30_CoalesceErrorUnreachable ==
    /\ result.msg # "coalesce_non_column"
    /\ (pc = "rj_coerce" /\ key_cols_coalesced(options))
          => /\ options.how = "Full"
             /\ ~turn_off_coalesce(req.left_on, req.right_on)
             /\ ~has_scalars
             /\ \A i \in 1..Len(left_on) : expr_arena[left_on[i].node].kind = "Column"
             /\ \A i \in 1..Len(right_on) : expr_arena[right_on[i].node].kind = "Column"
    /\ (pc = "rj_coerce" /\ turn_off_coalesce(req.left_on, req.right_on))
          => /\ options.coalesce = "KeepColumns"
             /\ ~key_cols_coalesced(options)

\* C30 witness: the coercion loop of a coalescing full join on the columns
\* a: Int32 and x: Int64 has run, and the casts of both keys are held for
\* the HStacks instead of being put into the key lists.
C30_Witness ==
    /\ pc = "rj_elementwise"
    /\ req.options = PlainOptions("Full", "CoalesceColumns")
    /\ key_cols_coalesced(options)
    /\ req.left_on = << "col_a" >>
    /\ req.right_on = << "col_x" >>
    /\ Len(as_with_columns_l) = 1
    /\ Len(as_with_columns_r) = 1
    /\ expr_arena[left_on[1].node].kind = "Column"

====
